---- MODULE Spec2Model ----
(***************************************************************************)
(* A model of fin-tables-ocr: the Truist statement parser.                 *)
(*                                                                         *)
(* Page texts are TLA+ strings and every regular expression of the source  *)
(* is matched character by character, so offsets, windows and thresholds   *)
(* are those of the Python code (offsets are 0-based as in Python).        *)
(***************************************************************************)
EXTENDS Integers, Sequences, FiniteSets, TLC

\* ------------------------------------------------------------------------
\* Text primitives (Python str operations)
\* ------------------------------------------------------------------------

Min2(a, b) == IF a <= b THEN a ELSE b

Max2(a, b) == IF a >= b THEN a ELSE b

MinOf(S) == CHOOSE x \in S : \A y \in S : x <= y

MaxOf(S) == CHOOSE x \in S : \A y \in S : x >= y

\* The i-th character of s (1-based), "" when out of range.
Ch(s, i) == IF i >= 1 /\ i <= Len(s) THEN SubSeq(s, i, i) ELSE ""

\* Python s[a:b] for 0 <= a, with b clamped to len(s).
Slice(s, a, b) ==
    LET hi == Min2(b, Len(s))
    IN  IF a >= hi THEN "" ELSE SubSeq(s, a + 1, hi)

\* Python s[a:].
SliceFrom(s, a) == Slice(s, a, Len(s))

LowerChars == "abcdefghijklmnopqrstuvwxyz"

UpperChars == "ABCDEFGHIJKLMNOPQRSTUVWXYZ"

DigitChars == "0123456789"

Digits == {Ch(DigitChars, i) : i \in 1..10}

DigitVal == [c \in Digits |-> (CHOOSE i \in 1..10 : Ch(DigitChars, i) = c) - 1]

Space == {" ", "\n", "\t", "\r"}

ToUpper == [c \in {Ch(LowerChars, i) : i \in 1..26} |->
               Ch(UpperChars, CHOOSE i \in 1..26 : Ch(LowerChars, i) = c)]

ToLower == [c \in {Ch(UpperChars, i) : i \in 1..26} |->
               Ch(LowerChars, CHOOSE i \in 1..26 : Ch(UpperChars, i) = c)]

\* str.upper(), by halves so that the recursion stays shallow.
RECURSIVE upper(_)
upper(s) ==
    IF Len(s) = 0 THEN ""
    ELSE IF Len(s) = 1 THEN (IF s \in DOMAIN ToUpper THEN ToUpper[s] ELSE s)
    ELSE LET h == Len(s) \div 2
         IN  upper(SubSeq(s, 1, h)) \o upper(SubSeq(s, h + 1, Len(s)))

\* str.lower().
RECURSIVE lower(_)
lower(s) ==
    IF Len(s) = 0 THEN ""
    ELSE IF Len(s) = 1 THEN (IF s \in DOMAIN ToLower THEN ToLower[s] ELSE s)
    ELSE LET h == Len(s) \div 2
         IN  lower(SubSeq(s, 1, h)) \o lower(SubSeq(s, h + 1, Len(s)))

\* Python `sub in s`.
Contains(s, sub) ==
    \E i \in 1..(Len(s) - Len(sub) + 1) : SubSeq(s, i, i + Len(sub) - 1) = sub

\* End (exclusive, 1-based) of the maximal run of characters of cls from i.
RECURSIVE RunEnd(_, _, _)
RunEnd(s, i, cls) ==
    IF i <= Len(s) /\ Ch(s, i) \in cls THEN RunEnd(s, i + 1, cls) ELSE i

\* Start (1-based) of the maximal run of characters of cls ending before i.
RECURSIVE RunStart(_, _, _)
RunStart(s, i, cls) ==
    IF i > 1 /\ Ch(s, i - 1) \in cls THEN RunStart(s, i - 1, cls) ELSE i

\* str.strip().
strip(s) ==
    LET a == RunEnd(s, 1, Space)
        b == RunStart(s, Len(s) + 1, Space)
    IN  IF a >= b THEN "" ELSE SubSeq(s, a, b - 1)

\* int() of a string of decimal digits.
RECURSIVE int(_)
int(s) ==
    IF Len(s) = 0 THEN 0
    ELSE 10 * int(SubSeq(s, 1, Len(s) - 1)) + DigitVal[Ch(s, Len(s))]

\* str.replace(old, "") for a one-character old.
RECURSIVE remove(_, _)
remove(s, c) ==
    IF Len(s) = 0 THEN ""
    ELSE IF Len(s) = 1 THEN (IF s = c THEN "" ELSE s)
    ELSE LET h == Len(s) \div 2
         IN  remove(SubSeq(s, 1, h), c) \o remove(SubSeq(s, h + 1, Len(s)), c)

\* str.split("\n"): the lines of s, as a sequence of strings.
split_lines(s) ==
    LET NL    == {i \in 1..Len(s) : Ch(s, i) = "\n"}
        n     == Cardinality(NL)
        \* position of the k-th newline; 0 and Len(s)+1 are the two ends
        pos   == [k \in 0..(n + 1) |->
                    IF k = 0 THEN 0
                    ELSE IF k = n + 1 THEN Len(s) + 1
                    ELSE CHOOSE p \in NL : Cardinality({q \in NL : q < p}) = k - 1]
    IN  [k \in 1..(n + 1) |->
            IF pos[k - 1] + 1 > pos[k] - 1 THEN ""
            ELSE SubSeq(s, pos[k - 1] + 1, pos[k] - 1)]

\* ------------------------------------------------------------------------
\* Regular expressions (Python re), as sequences of elements.  Every
\* pattern of the source is a concatenation of literals, whitespace runs,
\* digit runs and optional characters in which a greedy run is always
\* followed by an element that cannot start inside the run, so matching an
\* element at a position has one outcome.
\* ------------------------------------------------------------------------

Lit(s) == [t |-> "lit", s |-> s, n |-> 0]      \* a literal

Opt(s) == [t |-> "opt", s |-> s, n |-> 0]      \* x?

WS0 == [t |-> "ws*", s |-> "", n |-> 0]        \* \s*

WS1 == [t |-> "ws+", s |-> "", n |-> 0]        \* \s+

WSNL == [t |-> "wsnl", s |-> "", n |-> 0]      \* \s*\n

D(n) == [t |-> "d", s |-> "", n |-> n]         \* \d{n}

D1 == [t |-> "d+", s |-> "", n |-> 0]          \* \d+

DC1 == [t |-> "dc+", s |-> "", n |-> 0]        \* [\d,]+

Y42 == [t |-> "y42", s |-> "", n |-> 0]        \* (\d{4}|\d{2})

ANYAMT == [t |-> "anyamt", s |-> "", n |-> 0]  \* .*\d+\.\d{2}

AllDigits(s, i, n) ==
    /\ i + n - 1 <= Len(s)
    /\ \A k \in i..(i + n - 1) : Ch(s, k) \in Digits

\* A run x+ from i to j matches when it is not empty.
NonEmptyRun(i, j) == IF j > i THEN j ELSE 0

\* \s*\n over the whitespace run i..j-1: the greedy \s* gives back characters
\* until \n matches, so the match ends after the last newline of the run.
AfterLastNewline(s, i, j) ==
    IF \E k \in i..(j - 1) : Ch(s, k) = "\n"
    THEN MaxOf({k \in i..(j - 1) : Ch(s, k) = "\n"}) + 1
    ELSE 0

\* The end (exclusive) of the line that position i is on.
EndOfLine(s, i) ==
    IF \E k \in i..Len(s) : Ch(s, k) = "\n"
    THEN MinOf({k \in i..Len(s) : Ch(s, k) = "\n"})
    ELSE Len(s) + 1

\* The positions p of a "." in i+1..eol-3 with a digit before and two after.
AmountDots(s, i, eol) ==
    {p \in (i + 1)..(eol - 3) :
        /\ Ch(s, p) = "."
        /\ Ch(s, p - 1) \in Digits
        /\ Ch(s, p + 1) \in Digits
        /\ Ch(s, p + 2) \in Digits}

\* .*\d+\.\d{2}: "." does not match a newline, and the greedy .* ends at the
\* last digit "." digit digit of the line.
AfterLastAmount(P) == IF P = {} THEN 0 ELSE MaxOf(P) + 3

\* Position after element e matched at i (1-based), 0 when it does not match.
ElemEnd(e, s, i) ==
    CASE e.t = "lit" ->
            IF i + Len(e.s) - 1 <= Len(s) /\ SubSeq(s, i, i + Len(e.s) - 1) = e.s
            THEN i + Len(e.s) ELSE 0
      [] e.t = "opt" ->
            IF i + Len(e.s) - 1 <= Len(s) /\ SubSeq(s, i, i + Len(e.s) - 1) = e.s
            THEN i + Len(e.s) ELSE i
      [] e.t = "ws*" -> RunEnd(s, i, Space)
      [] e.t = "ws+" -> NonEmptyRun(i, RunEnd(s, i, Space))
      [] e.t = "wsnl" -> AfterLastNewline(s, i, RunEnd(s, i, Space))
      [] e.t = "d" -> IF AllDigits(s, i, e.n) THEN i + e.n ELSE 0
      [] e.t = "d+" -> NonEmptyRun(i, RunEnd(s, i, Digits))
      [] e.t = "dc+" -> NonEmptyRun(i, RunEnd(s, i, Digits \cup {","}))
      [] e.t = "y42" ->
            IF AllDigits(s, i, 4) THEN i + 4
            ELSE IF AllDigits(s, i, 2) THEN i + 2 ELSE 0
      [] e.t = "anyamt" -> AfterLastAmount(AmountDots(s, i, EndOfLine(s, i)))

\* The positions after elements k.. of pat matched from i; a failure ends
\* the sequence with 0.  MatchNext continues after element k ended at j.
RECURSIVE MatchFrom(_, _, _, _), MatchNext(_, _, _, _)
MatchFrom(pat, k, s, i) ==
    IF k > Len(pat) THEN <<>> ELSE MatchNext(pat, k, s, ElemEnd(pat[k], s, i))

MatchNext(pat, k, s, j) ==
    IF j = 0 THEN <<0>> ELSE <<j>> \o MatchFrom(pat, k + 1, s, j)

\* The boundaries of a match from i, given the positions b after its elements.
Boundaries(i, b) == IF b[Len(b)] = 0 THEN <<>> ELSE <<i>> \o b

\* re.match of a pattern at position i: the boundaries <<i, after element 1,
\* ..., after the last element>>, or <<>> when the pattern does not match.
Match(pat, s, i) == Boundaries(i, MatchFrom(pat, 1, s, i))

NoMatch == [start |-> -1, end |-> -1, b |-> <<>>]

\* The match object of boundaries b found at i: start and end are Python's
\* m.start() and m.end().
MatchObject(i, b) == [start |-> i - 1, end |-> b[Len(b)] - 1, b |-> b]

\* The first alternative that matches at i.
FirstAlternative(alts, s, i) == MinOf({c \in 1..Len(alts) : Match(alts[c], s, i) # <<>>})

\* The match at the leftmost of the positions P where an alternative matches.
LeftmostMatch(alts, s, P) ==
    IF P = {} THEN NoMatch
    ELSE MatchObject(MinOf(P), Match(alts[FirstAlternative(alts, s, MinOf(P))], s, MinOf(P)))

\* re.search(alt1|alt2|..., s): the leftmost match, the first alternative
\* that matches there.
re_search(alts, s) ==
    LeftmostMatch(alts, s,
                  {i \in 1..Len(s) : \E a \in 1..Len(alts) : Match(alts[a], s, i) # <<>>})

\* re.search(..., re.IGNORECASE): the patterns are written in upper case.
re_search_i(alts, s) == re_search(alts, upper(s))

\* The text of the group that spans elements from..to of a match.
Group(s, m, from, to) == SubSeq(s, m.b[from], m.b[to + 1] - 1)

\* A match found in s[from:], as a match in s.
Shifted(m, from) ==
    [start |-> m.start + from, end |-> m.end + from,
     b |-> [k \in 1..Len(m.b) |-> m.b[k] + from]]

\* re.finditer(pat, s): the non-overlapping matches, left to right;
\* finditer_next continues after the match m found in s[from:].
RECURSIVE finditer_from(_, _, _), finditer_next(_, _, _, _)
finditer_from(pat, s, from) ==
    finditer_next(pat, s, from, re_search(<<pat>>, SliceFrom(s, from)))

finditer_next(pat, s, from, m) ==
    IF m = NoMatch THEN <<>>
    ELSE <<Shifted(m, from)>> \o finditer_from(pat, s, from + m.end)

finditer(pat, s) == finditer_from(pat, s, 0)

\* ------------------------------------------------------------------------
\* models.py
\* ------------------------------------------------------------------------

\* class TransactionType(str, Enum): the members and their string values.
TransactionType == [CHECK |-> "check", WITHDRAWAL |-> "withdrawal", DEPOSIT |-> "deposit"]

\* Optional values: None is the empty sequence, a value v is <<v>>.
None == <<>>

Some(v) == <<v>>

\* Exceptions: the class a call raises, NoExc when it returns.
NoExc == ""

\* The first exception of a sequence of evaluations, in evaluation order.
FirstExc(excs) ==
    LET R == {i \in 1..Len(excs) : excs[i] # NoExc}
    IN  IF R = {} THEN NoExc ELSE excs[MinOf(R)]

\* decimal.Decimal(s) for an unsigned "digits[.digits]" string: the value is
\* coef * 10^(-exp).  Any other string raises InvalidOperation.
Decimal(s) ==
    LET dots == {i \in 1..Len(s) : Ch(s, i) = "."}
        body == remove(s, ".")
    IN  IF /\ Cardinality(dots) <= 1
           /\ Len(body) >= 1
           /\ \A i \in 1..Len(body) : Ch(body, i) \in Digits
        THEN [exc |-> NoExc, coef |-> int(body),
              exp |-> IF dots = {} THEN 0 ELSE Len(s) - MinOf(dots)]
        ELSE [exc |-> "InvalidOperation", coef |-> 0, exp |-> 0]

IsLeap(y) == (y % 4 = 0 /\ y % 100 # 0) \/ y % 400 = 0

DaysInMonth(y, m) ==
    IF m = 2 THEN (IF IsLeap(y) THEN 29 ELSE 28)
    ELSE IF m \in {4, 6, 9, 11} THEN 30 ELSE 31

\* datetime.date(y, m, d): the date <<y, m, d>>, or ValueError.
date(y, m, d) ==
    IF y >= 1 /\ y <= 9999 /\ m >= 1 /\ m <= 12 /\ d >= 1 /\ d <= DaysInMonth(y, m)
    THEN [exc |-> NoExc, v |-> <<y, m, d>>]
    ELSE [exc |-> "ValueError", v |-> <<0, 0, 0>>]

\* A Transaction that keeps a signed amount, negative for money that leaves
\* the account, and validates nothing.
TransactionSigned(dt, description, amount, transaction_type, check_number) ==
    [exc |-> NoExc,
     t   |-> [date |-> dt, description |-> description,
              amount |-> [coef |-> IF transaction_type = TransactionType.DEPOSIT
                                   THEN amount.coef ELSE 0 - amount.coef,
                          exp |-> amount.exp],
              transaction_type |-> transaction_type,
              check_number |-> check_number]]

\* Transaction(...): pydantic validates amount >= 0 (Field(ge=0)) and that
\* transaction_type is a TransactionType; its ValidationError is a ValueError.
Transaction(dt, description, amount, transaction_type, check_number) ==
    [exc |-> IF /\ amount.coef >= 0
                /\ transaction_type \in {TransactionType[k] : k \in DOMAIN TransactionType}
             THEN NoExc ELSE "ValueError",
     t   |-> [date |-> dt, description |-> description,
              amount |-> [coef |-> amount.coef, exp |-> amount.exp],
              transaction_type |-> transaction_type,
              check_number |-> check_number]]

\* ------------------------------------------------------------------------
\* banks/truist/table_parsers.py
\* ------------------------------------------------------------------------

parse_amount(amount_str) == Decimal(strip(remove(amount_str, ",")))

\* date_str is MM/DD as matched by \d{2}/\d{2}.
parse_date(date_str, year) ==
    date(year, int(SubSeq(date_str, 1, 2)), int(SubSeq(date_str, 4, 5)))

\* except InvalidOperation: continue
CaughtAmountOnly == {"InvalidOperation"}

\* except (ValueError, InvalidOperation): continue
CaughtPerLine == {"ValueError", "InvalidOperation"}

\* One iteration of a loop that appends a transaction inside try/except:
\* acc is [exc, txns] so far, e the exception of building the transaction,
\* t the transaction.  An exception that is not caught ends the loop.
try_append(acc, e, t) ==
    IF acc.exc # NoExc THEN acc
    ELSE IF e = NoExc THEN [exc |-> NoExc, txns |-> Append(acc.txns, t)]
    ELSE IF e \in CaughtPerLine THEN acc
    ELSE [exc |-> e, txns |-> acc.txns]

\* The try block once parse_date, parse_amount and Transaction(...) were
\* evaluated, in this order.
append_built(acc, dt, amt, tx) ==
    try_append(acc, FirstExc(<<dt.exc, amt.exc, tx.exc>>), tx.t)

\* transactions.append(Transaction(date=..., description=..., amount=...,
\* transaction_type=..., check_number=...)) inside the try block.
append_transaction(acc, dt, amt, description, transaction_type, check_number) ==
    append_built(acc, dt, amt,
                 Transaction(dt.v, description, amt, transaction_type, check_number))

\* No transaction and no exception.
NoTransactions == [exc |-> NoExc, txns |-> <<>>]

ChecksHeader == <<Lit("CHECKS"), WSNL>>

ChecksEnd == << <<Lit("TOTAL"), WS0, Lit("CHECKS")>>,
                <<Lit("*"), WS0, Lit("INDICATES")>>,
                <<Lit("OTHER"), WS0, Lit("WITHDRAW")>>,
                <<Lit("OTHERWITHDRAW")>>,
                <<Lit("DATE"), WS1, Lit("DESCRIPTION"), WS1, Lit("AMOUNT")>> >>

\* (\d{2}/\d{2})\s+\*?(\d+)\s+([\d,]+\.\d{2})
check_pattern == <<D(2), Lit("/"), D(2), WS1, Opt("*"), D1, WS1, DC1, Lit("."), D(2)>>

\* A check built without its check_number.
check_without_number(acc, date_str, check_num, amount_str, year) ==
    append_transaction(acc, parse_date(date_str, year), parse_amount(amount_str),
                       "Check #" \o check_num, TransactionType.CHECK, None)

\* The try block of the loop over the matches, for the groups date_str,
\* check_num and amount_str.
check_of_groups(acc, date_str, check_num, amount_str, year) ==
    append_transaction(acc, parse_date(date_str, year), parse_amount(amount_str),
                       "Check #" \o check_num, TransactionType.CHECK,
                       Some(int(check_num)))

\* The body of the loop over the matches of check_pattern.
check_of_match(acc, checks_text, m, year) ==
    check_of_groups(acc, Group(checks_text, m, 1, 3), Group(checks_text, m, 6, 6),
                    Group(checks_text, m, 8, 10), year)

RECURSIVE checks_of_matches(_, _, _, _, _)
checks_of_matches(acc, checks_text, ms, k, year) ==
    IF k > Len(ms) THEN acc
    ELSE checks_of_matches(check_of_match(acc, checks_text, ms[k], year),
                           checks_text, ms, k + 1, year)

\* checks_end, given the match next_section in text[checks_start:].
checks_until(text, checks_start, next_section) ==
    IF next_section # NoMatch
    THEN <<checks_start, checks_start + next_section.start>>
    ELSE <<checks_start, Len(text)>>

\* The span of the checks, given the match of the "Checks" header.
checks_after(text, checks_match) ==
    IF checks_match = NoMatch THEN <<>>
    ELSE checks_until(text, checks_match.end,
                      re_search_i(ChecksEnd, SliceFrom(text, checks_match.end)))

\* The span text[checks_start:checks_end] of the checks on a page: <<>> when
\* the page has no "Checks" header, or <<checks_start, checks_end>>.
checks_span(text) == checks_after(text, re_search_i(<<ChecksHeader>>, text))

\* The loop over the matches of check_pattern in checks_text.
checks_of_text(checks_text, year) ==
    checks_of_matches(NoTransactions, checks_text, finditer(check_pattern, checks_text),
                      1, year)

\* The checks of the span, none when there is no span.
checks_in_span(text, span, year) ==
    IF span = <<>> THEN NoTransactions
    ELSE checks_of_text(Slice(text, span[1], span[2]), year)

\* Returns [exc, txns]: the transactions, or the exception that leaves.
extract_checks_from_page(text, year) == checks_in_span(text, checks_span(text), year)

\* ^(\d{2}/\d{2})\s+(.+?)\s+([\d,]+\.\d{2})\s*$ on a stripped line: the
\* groups, or ok = FALSE.  \s+ is greedy and gives back one character at a
\* time; the lazy (.+?) then takes the shortest text that lets the rest,
\* \s+ amount \s* $, match.
LineHead == <<D(2), Lit("/"), D(2), WS1>>

LineTail == <<WS1, DC1, Lit("."), D(2), WS0>>

NoLineMatch == [ok |-> FALSE, date_str |-> "", description |-> "", amount_str |-> ""]

\* Whether the boundaries b of a match of LineTail reach the end of s.
ReachesEnd(s, b) == b # <<>> /\ b[Len(b)] = Len(s) + 1

\* The positions from which \s+ amount \s* $ matches.
TailStarts(s) == {e \in 1..Len(s) : ReachesEnd(s, Match(LineTail, s, e))}

\* The groups, for the description s[p..e-1] and the tail boundaries b.
line_groups(s, p, e, b) ==
    [ok |-> TRUE, date_str |-> SubSeq(s, 1, 5), description |-> SubSeq(s, p, e - 1),
     amount_str |-> SubSeq(s, b[2], b[5] - 1)]

\* The description starts at p and ends before the first tail start after p.
line_from(s, p, e) == line_groups(s, p, e, Match(LineTail, s, e))

\* The gap after the date takes the most whitespace, K, that leaves a
\* description of at least one character before a tail start.
line_gap(s, h, E, K) ==
    IF K = {} THEN NoLineMatch
    ELSE line_from(s, h[4] + MaxOf(K), MinOf({x \in E : x >= h[4] + MaxOf(K) + 1}))

\* h: the boundaries of the date and the whitespace after it, E: the tail starts.
line_after_date(s, h, E) ==
    IF h = <<>> THEN NoLineMatch
    ELSE line_gap(s, h, E, {k \in 1..(h[5] - h[4]) : \E e \in E : e >= h[4] + k + 1})

match_line(s) == line_after_date(s, Match(LineHead, s, 1), TailStarts(s))

\* The header/footer filter, on the upper-cased line.
is_skipped_upper(line_upper) ==
    \/ Contains(line_upper, "DESCRIPTION") /\ Contains(line_upper, "AMOUNT")
    \/ Contains(line_upper, "DATE") /\ Contains(line_upper, "CHECK")
    \/ Contains(line_upper, "CONTINUED")
    \/ Contains(line_upper, "PAGE") /\ Contains(line_upper, "OF")

\* The header/footer filter of the loop over the lines.
is_skipped_line(line) == is_skipped_upper(upper(line))

\* The shortest description that is kept.
MinDescription == 3

\* The loop body with a test for the empty description only.
transaction_of_nonempty(acc, m, description, year, transaction_type) ==
    IF description = "" THEN acc
    ELSE append_transaction(acc, parse_date(m.date_str, year), parse_amount(m.amount_str),
                            description, transaction_type, None)

\* The loop body from the test of the description on.
transaction_of_description(acc, m, description, year, transaction_type) ==
    IF description = "" \/ Len(description) < MinDescription THEN acc
    ELSE append_transaction(acc, parse_date(m.date_str, year), parse_amount(m.amount_str),
                            description, transaction_type, None)

\* The loop body from the test of the match on.
transaction_of_groups(acc, m, year, transaction_type) ==
    IF ~m.ok THEN acc
    ELSE transaction_of_description(acc, m, strip(m.description), year, transaction_type)

\* The body of the loop over the lines.
transaction_of_line(acc, line, year, transaction_type) ==
    IF is_skipped_line(line) THEN acc
    ELSE transaction_of_groups(acc, match_line(strip(line)), year, transaction_type)

RECURSIVE transactions_of_lines(_, _, _, _, _)
transactions_of_lines(acc, lines, k, year, transaction_type) ==
    IF k > Len(lines) THEN acc
    ELSE transactions_of_lines(transaction_of_line(acc, lines[k], year, transaction_type),
                               lines, k + 1, year, transaction_type)

\* Returns [exc, txns]: the transactions, or the exception that leaves.
_extract_transactions_from_text(text, year, transaction_type) ==
    transactions_of_lines(NoTransactions, split_lines(text), 1, year, transaction_type)

\* DATE\s+DESCRIPTION\s+AMOUNT
TableHeader == <<Lit("DATE"), WS1, Lit("DESCRIPTION"), WS1, Lit("AMOUNT")>>

\* (Other\s*withdrawals?,?\s*debits|Otherwithdrawals?,?debits)
WithdrawHeader ==
    << <<Lit("OTHER"), WS0, Lit("WITHDRAWAL"), Opt("S"), Opt(","), WS0, Lit("DEBITS")>>,
       <<Lit("OTHERWITHDRAWAL"), Opt("S"), Opt(","), Lit("DEBITS")>> >>

\* (Deposits,?\s*credits\s*and\s*interest|Deposits,?creditsandinterest)
DepositHeader ==
    << <<Lit("DEPOSITS"), Opt(","), WS0, Lit("CREDITS"), WS0, Lit("AND"), WS0,
         Lit("INTEREST")>>,
       <<Lit("DEPOSITS"), Opt(","), Lit("CREDITSANDINTEREST")>> >>

\* Total\s*other\s*withdrawals|Totalotherwithdrawals
TotalWithdraw ==
    << <<Lit("TOTAL"), WS0, Lit("OTHER"), WS0, Lit("WITHDRAWALS")>>,
       <<Lit("TOTALOTHERWITHDRAWALS")>> >>

\* Total\s*deposits|Totaldeposits
TotalDeposit == << <<Lit("TOTAL"), WS0, Lit("DEPOSITS")>>, <<Lit("TOTALDEPOSITS")>> >>

\* How far back from a table header a section header is looked for.
PrefixWindow == 100

\* How far back from a section header the word "total" is looked for.
TotalWindow == 10

\* A dict: a function from its keys; `k in d` is k \in DOMAIN d.
EmptyDict == [k \in {} |-> 0]

\* "total" not in prefix[max(0, m.start() - 10) : m.start()].lower()
not_in_total(prefix, m) ==
    ~Contains(lower(Slice(prefix, Max2(0, m.start - TotalWindow), m.start)), "total")

\* One of the two ifs of the loop body: the match m of a section header in
\* the prefix of table header th sets the header and table markers, unless
\* the header marker is set or the match follows "total".
with_section(markers, header, table, th, prefix, m) ==
    IF m # NoMatch /\ header \notin DOMAIN markers /\ not_in_total(prefix, m)
    THEN (header :> (th.start - Len(prefix) + m.start)) @@ (table :> th.end) @@ markers
    ELSE markers

\* The loop body for table header th, given the prefix before it.
markers_in_prefix(markers, th, prefix) ==
    with_section(with_section(markers, "withdraw_header", "withdraw_table", th, prefix,
                              re_search_i(WithdrawHeader, prefix)),
                 "deposit_header", "deposit_table", th, prefix,
                 re_search_i(DepositHeader, prefix))

\* The body of the loop over the table headers: markers after table header th.
markers_after(text, markers, th) ==
    markers_in_prefix(markers, th, Slice(text, Max2(0, th.start - PrefixWindow), th.start))

RECURSIVE markers_of_headers(_, _, _, _)
markers_of_headers(text, markers, ths, k) ==
    IF k > Len(ths) THEN markers
    ELSE markers_of_headers(text, markers_after(text, markers, ths[k]), ths, k + 1)

\* if m: markers[key] = m.start()
with_total(markers, key, m) ==
    IF m # NoMatch THEN (key :> m.start) @@ markers ELSE markers

_find_section_markers(text) ==
    with_total(with_total(markers_of_headers(text, EmptyDict,
                                             finditer(TableHeader, upper(text)), 1),
                          "total_withdraw", re_search_i(TotalWithdraw, text)),
               "total_deposit", re_search_i(TotalDeposit, text))

\* How much of the head of a page is searched for "(continued)".
ContinuationWindow == 200

\* How much text after the table header is searched for keywords.
ContentWindow == 500

is_continuation(text) == Contains(lower(Slice(text, 0, ContinuationWindow)), "(continued)")

deposit_indicators == {"DEPOSIT", "EDI PYMNTS", "PAYABLES", "INCOMING WIRE"}

withdrawal_indicators == {"DEBIT", "ACH CORP DEBIT", "WIRE REF#", "ZELLE"}

\* continued\s*\n|§\s*PAGE
PageMarker == << <<Lit("CONTINUED"), WSNL>>, <<Lit("§"), WS0, Lit("PAGE")>> >>

\* Important:|§\s*PAGE
DepositsEndMarker == << <<Lit("IMPORTANT:")>>, <<Lit("§"), WS0, Lit("PAGE")>> >>

\* any(kw in content.upper() for kw in indicators), content upper-cased.
has_any(content, indicators) == \E kw \in indicators : Contains(content, kw)

\* text[table_header.end() : table_header.end() + 500].upper()
content_after(text, table_header) ==
    upper(Slice(text, table_header.end, table_header.end + ContentWindow))

\* A continuation page counted as withdrawals whatever its content.
withdrawals_by_header(table_header, content) == <<table_header.end>>

\* A continuation page counted as withdrawals only when no deposit keyword
\* stands in the window.
withdrawals_without_deposits(table_header, content) ==
    IF has_any(content, withdrawal_indicators) /\ ~has_any(content, deposit_indicators)
    THEN <<table_header.end>>
    ELSE <<>>

\* The two branches on has_withdrawals and has_deposits.
withdrawals_by_content(table_header, content) ==
    IF has_any(content, withdrawal_indicators) /\ ~has_any(content, deposit_indicators)
    THEN <<table_header.end>>
    ELSE IF has_any(content, withdrawal_indicators) /\ has_any(content, deposit_indicators)
    THEN <<table_header.end>>
    ELSE <<>>

\* A continuation branch that leaves the end to the later resolution.
withdrawals_continued_open(text, markers, table_header) ==
    IF "total_withdraw" \in DOMAIN markers
    THEN (IF table_header # NoMatch THEN <<table_header.end>> ELSE <<>>)
    ELSE IF "deposit_header" \notin DOMAIN markers /\ "deposit_table" \notin DOMAIN markers
    THEN (IF table_header # NoMatch
          THEN withdrawals_by_content(table_header, content_after(text, table_header))
          ELSE <<>>)
    ELSE <<>>

\* The continuation branch, given the first table header of the page.
withdrawals_continued(text, markers, table_header) ==
    IF "total_withdraw" \in DOMAIN markers
    THEN (IF table_header # NoMatch
          THEN <<table_header.end, markers["total_withdraw"]>> ELSE <<>>)
    ELSE IF "deposit_header" \notin DOMAIN markers /\ "deposit_table" \notin DOMAIN markers
    THEN (IF table_header # NoMatch
          THEN withdrawals_by_content(table_header, content_after(text, table_header))
          ELSE <<>>)
    ELSE <<>>

\* The start of the withdrawals span and the end when the same branch fixes
\* it: <<>> (start is None), <<start>> (end is None) or <<start, end>>.
withdrawals_start(text, markers) ==
    IF "withdraw_table" \in DOMAIN markers THEN <<markers["withdraw_table"]>>
    ELSE IF is_continuation(text)
    THEN withdrawals_continued(text, markers, re_search_i(<<TableHeader>>, text))
    ELSE <<>>

\* end = start + m.start() if m else len(text), m found in text[start:].
end_at_marker(text, start, m) == IF m # NoMatch THEN start + m.start ELSE Len(text)

\* An end that prefers the total line to the deposits header.
withdrawals_end_total_first(text, markers, start) ==
    IF "total_withdraw" \in DOMAIN markers THEN markers["total_withdraw"]
    ELSE IF "deposit_header" \in DOMAIN markers THEN markers["deposit_header"]
    ELSE end_at_marker(text, start, re_search_i(PageMarker, SliceFrom(text, start)))

\* The end of the withdrawals span when the start did not fix it.
withdrawals_end(text, markers, start) ==
    IF "deposit_header" \in DOMAIN markers THEN markers["deposit_header"]
    ELSE IF "total_withdraw" \in DOMAIN markers THEN markers["total_withdraw"]
    ELSE end_at_marker(text, start, re_search_i(PageMarker, SliceFrom(text, start)))

\* The span, given start and end of the first part in se.
withdrawals_from(text, markers, se) ==
    IF se = <<>> THEN <<>>
    ELSE IF Len(se) = 2 THEN se
    ELSE <<se[1], withdrawals_end(text, markers, se[1])>>

\* The span, given the markers of the page.
withdrawals_between(text, markers) ==
    withdrawals_from(text, markers, withdrawals_start(text, markers))

\* The span text[start:end] of the withdrawals on a page: <<>> or <<start, end>>.
withdrawals_span(text) == withdrawals_between(text, _find_section_markers(text))

\* return [] when start is None, else
\* _extract_transactions_from_text(text[start:end], year, transaction_type).
transactions_in_span(text, span, year, transaction_type) ==
    IF span = <<>> THEN NoTransactions
    ELSE _extract_transactions_from_text(Slice(text, span[1], span[2]), year,
                                         transaction_type)

\* Returns [exc, txns].
extract_withdrawals_from_page(text, year) ==
    transactions_in_span(text, withdrawals_span(text), year, TransactionType.WITHDRAWAL)

\* start = markers["total_withdraw"] + table_header.end() for the table
\* header found in text[markers["total_withdraw"]:].
deposits_after_total(markers, table_header) ==
    IF table_header # NoMatch THEN <<markers["total_withdraw"] + table_header.end>>
    ELSE <<>>

\* The branch that looks for deposit keywords after the first table header.
deposits_by_content(text, table_header) ==
    IF table_header # NoMatch
       /\ has_any(content_after(text, table_header), deposit_indicators)
    THEN <<table_header.end>>
    ELSE <<>>

\* The start of the deposits span: <<>> (start is None) or <<start>>.
deposits_start(text, markers) ==
    IF "deposit_table" \in DOMAIN markers THEN <<markers["deposit_table"]>>
    ELSE IF ~is_continuation(text) THEN <<>>
    ELSE IF "total_withdraw" \in DOMAIN markers
    THEN deposits_after_total(markers,
                              re_search_i(<<TableHeader>>,
                                          SliceFrom(text, markers["total_withdraw"])))
    ELSE IF "withdraw_header" \notin DOMAIN markers /\ "withdraw_table" \notin DOMAIN markers
    THEN deposits_by_content(text, re_search_i(<<TableHeader>>, text))
    ELSE <<>>

\* The end of the deposits span.
deposits_end(text, markers, start) ==
    IF "total_deposit" \in DOMAIN markers THEN markers["total_deposit"]
    ELSE end_at_marker(text, start, re_search_i(DepositsEndMarker, SliceFrom(text, start)))

\* The span, given the start in se.
deposits_from(text, markers, se) ==
    IF se = <<>> THEN <<>> ELSE <<se[1], deposits_end(text, markers, se[1])>>

\* The span, given the markers of the page.
deposits_between(text, markers) == deposits_from(text, markers, deposits_start(text, markers))

\* The span text[start:end] of the deposits on a page: <<>> or <<start, end>>.
deposits_span(text) == deposits_between(text, _find_section_markers(text))

\* Returns [exc, txns].
extract_deposits_from_page(text, year) ==
    transactions_in_span(text, deposits_span(text), year, TransactionType.DEPOSIT)

\* ------------------------------------------------------------------------
\* banks/truist/page_classifier.py
\* ------------------------------------------------------------------------

TRANSACTION_INDICATORS ==
    << <<Lit("CHECKS")>>,
       <<Lit("OTHER"), WS0, Lit("WITHDRAWALS")>>,
       <<Lit("DEPOSITS"), Opt(","), WS0, Lit("CREDITS")>>,
       <<Lit("DATE"), WS1, Lit("DESCRIPTION"), WS1, Lit("AMOUNT")>>,
       <<Lit("DATE"), WS1, Lit("CHECK"), WS0, Lit("#"), WS1, Lit("AMOUNT")>> >>

BOILERPLATE_INDICATORS ==
    << <<Lit("QUESTIONS"), Opt(","), WS0, Lit("COMMENTS"), WS0, Lit("OR"), WS0,
         Lit("ERRORS?")>>,
       <<Lit("ELECTRONIC"), WS0, Lit("FUND"), WS0, Lit("TRANSFERS")>>,
       <<Lit("HOW"), WS0, Lit("TO"), WS0, Lit("RECONCILE"), WS0, Lit("YOUR"), WS0,
         Lit("ACCOUNT")>>,
       <<Lit("BILLING"), WS0, Lit("RIGHTS"), WS0, Lit("SUMMARY")>>,
       <<Lit("MAIL-IN"), WS0, Lit("DEPOSITS")>> >>

\* \d{2}/\d{2}\s+.*\d+\.\d{2}
date_amount_pattern == <<D(2), Lit("/"), D(2), WS1, ANYAMT>>

\* The trimmed length below which a page counts as empty.
MinTextLength == 100

\* The number of date/amount lines that make a page a transaction page.
MinDateAmountLines == 3

\* The classifier with the transaction markers tested before the
\* boilerplate markers.
is_transaction_page_markers_first(text) ==
    IF Len(strip(text)) < MinTextLength THEN FALSE
    ELSE IF re_search_i(TRANSACTION_INDICATORS, text) # NoMatch THEN TRUE
    ELSE IF re_search_i(BOILERPLATE_INDICATORS, text) # NoMatch THEN FALSE
    ELSE Len(finditer(date_amount_pattern, text)) >= MinDateAmountLines

\* The classifier without the test of the length.
is_transaction_page_any_length(text) ==
    IF re_search_i(BOILERPLATE_INDICATORS, text) # NoMatch THEN FALSE
    ELSE IF re_search_i(TRANSACTION_INDICATORS, text) # NoMatch THEN TRUE
    ELSE Len(finditer(date_amount_pattern, text)) >= MinDateAmountLines

is_transaction_page(text) ==
    IF re_search_i(BOILERPLATE_INDICATORS, text) # NoMatch THEN FALSE
    ELSE IF Len(strip(text)) < MinTextLength THEN FALSE
    ELSE IF re_search_i(TRANSACTION_INDICATORS, text) # NoMatch THEN TRUE
    ELSE Len(finditer(date_amount_pattern, text)) >= MinDateAmountLines

\* ------------------------------------------------------------------------
\* banks/truist/parser.py, banks/base.py, banks/detector.py, extractor.py
\* ------------------------------------------------------------------------

\* For\s*(\d{2}/\d{2}/(\d{4}|\d{2})), case-sensitive
StatementDate == <<Lit("For"), WS0, D(2), Lit("/"), D(2), Lit("/"), Y42>>

\* 20\d{2}
AnyYear == <<Lit("20"), D(2)>>

\* CHECKING\s*(\d+), case-sensitive
AccountNumber == <<Lit("CHECKING"), WS0, D1>>

\* previous\s*balance\s*as\s*of\s*(\d{2}/\d{2}/\d{4})
PreviousBalance ==
    <<Lit("PREVIOUS"), WS0, Lit("BALANCE"), WS0, Lit("AS"), WS0, Lit("OF"), WS0,
      D(2), Lit("/"), D(2), Lit("/"), D(4)>>

\* new\s*balance\s*as\s*of\s*(\d{2}/\d{2}/\d{4})
NewBalance ==
    <<Lit("NEW"), WS0, Lit("BALANCE"), WS0, Lit("AS"), WS0, Lit("OF"), WS0,
      D(2), Lit("/"), D(2), Lit("/"), D(4)>>

\* The century added to a two-digit year.
Century == 2000

\* TruistParser.can_parse on the texts of the pages of a document.
can_parse(texts) ==
    IF texts = <<>> THEN FALSE ELSE Contains(lower(texts[1]), "truist")

\* Whether _extract_metadata reads the clock (date.today()) for this text.
reads_today(text) ==
    re_search(<<StatementDate>>, text) = NoMatch /\ re_search(<<AnyYear>>, text) = NoMatch

\* The year of the statement date taken as it is printed.
year_of_date_verbatim(year_str) == Some(int(year_str))

\* year_str = date_match.group(2); 2000 + int(year_str) when it has two
\* digits.
year_of_date(year_str) ==
    IF Len(year_str) = 2 THEN Some(Century + int(year_str)) ELSE Some(int(year_str))

\* The fallback: the first 20YY of the text, else the current year.
year_of_any(text, year_match, today_year) ==
    IF year_match # NoMatch THEN Some(int(Group(text, year_match, 1, 2)))
    ELSE Some(today_year)

\* self._year, given the match of the statement date.
year_of_text(text, date_match, today_year) ==
    IF date_match # NoMatch THEN year_of_date(Group(text, date_match, 7, 7))
    ELSE year_of_any(text, re_search(<<AnyYear>>, text), today_year)

\* self._account_number, given the match of the account number.
account_of_text(text, account_match) ==
    IF account_match # NoMatch THEN Some(Group(text, account_match, 3, 3)) ELSE None

\* TruistParser._extract_metadata on the first page's text: the values of
\* self._year and self._account_number afterwards; today_year is
\* date.today().year.
_extract_metadata(text, today_year) ==
    [_year |-> year_of_text(text, re_search(<<StatementDate>>, text), today_year),
     _account_number |-> account_of_text(text, re_search(<<AccountNumber>>, text))]

\* date(int(parts[2]), int(parts[0]), int(parts[1])) of a matched MM/DD/YYYY.
date_of_match(text, m) ==
    date(int(Group(text, m, 13, 13)), int(Group(text, m, 9, 9)), int(Group(text, m, 11, 11)))

\* A date as an Optional: [exc, v] with v = Some(date).
optional_date(d) == [exc |-> d.exc, v |-> IF d.exc = NoExc THEN Some(d.v) ELSE None]

\* start_date / end_date: None without a match, else the date of the match.
period_date(text, m) ==
    IF m = NoMatch THEN [exc |-> NoExc, v |-> None]
    ELSE optional_date(date_of_match(text, m))

\* The two dates in the order the code builds them; the first exception leaves.
period_of_dates(sd, ed) ==
    IF sd.exc # NoExc THEN [exc |-> sd.exc, start_date |-> None, end_date |-> None]
    ELSE IF ed.exc # NoExc THEN [exc |-> ed.exc, start_date |-> None, end_date |-> None]
    ELSE [exc |-> NoExc, start_date |-> sd.v, end_date |-> ed.v]

\* TruistParser._extract_statement_period on the first page's text with
\* self._year = year: [exc, start_date, end_date].  Nothing catches the
\* ValueError of date().
_extract_statement_period(text, year) ==
    IF year = None \/ year = Some(0)
    THEN [exc |-> NoExc, start_date |-> None, end_date |-> None]
    ELSE period_of_dates(period_date(text, re_search_i(<<PreviousBalance>>, text)),
                         period_date(text, re_search_i(<<NewBalance>>, text)))

\* Python's order of one-character strings (ord): here the letters and digits.
Ord(c) ==
    IF c \in Digits THEN 48 + DigitVal[c]
    ELSE IF c \in DOMAIN ToLower
         THEN 64 + (CHOOSE i \in 1..26 : Ch(UpperChars, i) = c)
    ELSE IF c \in DOMAIN ToUpper
         THEN 96 + (CHOOSE i \in 1..26 : Ch(LowerChars, i) = c)
    ELSE 0

\* a < b for Python strings: the first differing character decides, a proper
\* prefix is smaller.
StrLess(a, b) ==
    LET Diff == {i \in 1..Min2(Len(a), Len(b)) : Ch(a, i) # Ch(b, i)}
    IN  IF Diff = {} THEN Len(a) < Len(b)
        ELSE Ord(Ch(a, MinOf(Diff))) < Ord(Ch(b, MinOf(Diff)))

\* a < b for dates <<y, m, d>>.
DateLess(a, b) ==
    \/ a[1] < b[1]
    \/ a[1] = b[1] /\ a[2] < b[2]
    \/ a[1] = b[1] /\ a[2] = b[2] /\ a[3] < b[3]

\* A sort by the date alone: key=lambda t: t.date.
KeyLessByDate(a, b) == DateLess(a.date, b.date)

\* key=lambda t: (t.date, t.transaction_type.value): key(a) < key(b).
KeyLess(a, b) ==
    \/ DateLess(a.date, b.date)
    \/ a.date = b.date /\ StrLess(a.transaction_type, b.transaction_type)

\* list.sort(key=...): stable, so t goes after the elements whose key is not
\* greater than its own.
RECURSIVE insert_sorted(_, _)
insert_sorted(sorted, t) ==
    IF sorted = <<>> THEN <<t>>
    ELSE IF KeyLess(t, sorted[Len(sorted)])
         THEN Append(insert_sorted(SubSeq(sorted, 1, Len(sorted) - 1), t),
                     sorted[Len(sorted)])
    ELSE Append(sorted, t)

RECURSIVE sort_transactions(_)
sort_transactions(ts) ==
    IF ts = <<>> THEN <<>>
    ELSE insert_sorted(sort_transactions(SubSeq(ts, 1, Len(ts) - 1)), ts[Len(ts)])

BankStatement(bank_name, account_number, statement_period_start, statement_period_end, transactions) ==
    [bank_name |-> bank_name, account_number |-> account_number,
     statement_period_start |-> statement_period_start, statement_period_end |-> statement_period_end,
     transactions |-> transactions]

\* ------------------------------------------------------------------------
\* The documents: what pdfplumber's extract_text() returns for each page.
\* A page is a sequence of lines; a line is a literal, a transaction row
\* "MM/DD description amount" or a check entry "MM/DD [*]number amount",
\* printed the way the bank prints it.
\* ------------------------------------------------------------------------

lit(text) ==
    [k |-> "lit", mm |-> 0, dd |-> 0, num |-> 0, star |-> FALSE, desc |-> text,
     gap |-> 0, cents |-> 0]

\* gap: the number of blanks between the description and the amount.
row(mm, dd, desc, gap, cents) ==
    [k |-> "row", mm |-> mm, dd |-> dd, num |-> 0, star |-> FALSE, desc |-> desc,
     gap |-> gap, cents |-> cents]

chk(mm, dd, star, num, cents) ==
    [k |-> "chk", mm |-> mm, dd |-> dd, num |-> num, star |-> star, desc |-> "",
     gap |-> 1, cents |-> cents]

\* The decimal digits of a natural number.
RECURSIVE FmtNat(_)
FmtNat(v) ==
    IF v < 10 THEN Ch(DigitChars, v + 1)
    ELSE FmtNat(v \div 10) \o Ch(DigitChars, (v % 10) + 1)

Fmt2(v) == Ch(DigitChars, (v \div 10) + 1) \o Ch(DigitChars, (v % 10) + 1)

Fmt3(v) == Ch(DigitChars, (v \div 100) + 1) \o Fmt2(v % 100)

\* A natural number with thousands separators: 1250 is "1,250".
RECURSIVE FmtGrouped(_)
FmtGrouped(v) ==
    IF v < 1000 THEN FmtNat(v)
    ELSE FmtGrouped(v \div 1000) \o "," \o Fmt3(v % 1000)

\* An amount of cents as printed: 125000 is "1,250.00".
FmtAmount(cents) == FmtGrouped(cents \div 100) \o "." \o Fmt2(cents % 100)

RECURSIVE Blanks(_)
Blanks(k) == IF k = 0 THEN "" ELSE " " \o Blanks(k - 1)

RenderLine(l) ==
    CASE l.k = "lit" -> l.desc
      [] l.k = "row" ->
            Fmt2(l.mm) \o "/" \o Fmt2(l.dd) \o " " \o l.desc \o Blanks(l.gap)
                \o FmtAmount(l.cents)
      [] l.k = "chk" ->
            Fmt2(l.mm) \o "/" \o Fmt2(l.dd) \o " " \o (IF l.star THEN "*" ELSE "")
                \o FmtNat(l.num) \o Blanks(l.gap) \o FmtAmount(l.cents)

\* The lines joined by newlines.
RECURSIVE RenderPage(_)
RenderPage(lines) ==
    IF lines = <<>> THEN ""
    ELSE IF Len(lines) = 1 THEN RenderLine(lines[1])
    ELSE RenderPage(SubSeq(lines, 1, Len(lines) - 1)) \o "\n"
            \o RenderLine(lines[Len(lines)])

PAD  == lit("Truist Bank, Member FDIC. Equal Housing Lender. Activity for this period.")
CONT == lit("BUSINESS VALUE CHECKING 1340006375358 (continued)")
WH   == lit("Other withdrawals, debits and service charges")
TH   == lit("DATE DESCRIPTION AMOUNT($)")
TW   == lit("Total other withdrawals, debits and service charges = $1,373.45")
DH   == lit("Deposits, credits and interest")
TD   == lit("Total deposits, credits and interest = $500.99")
CHK  == lit("Checks")
CTH  == lit("DATE CHECK # AMOUNT($)")
CEND == lit("* indicates a skip in sequential check numbers above this item")
BOIL == lit("Questions, comments or errors?")
RECO == lit("HOW TO RECONCILE YOUR ACCOUNT")
BILL == lit("Billing Rights Summary")
ELEC == lit("Electronic fund transfers")
MAIL == lit("Mail-in deposits")
MORE == lit("Account activity continued")
TWL  == lit("Total other withdrawals, debits and service charges = $100,001,373.45")

RAcme  == row(3, 15, "ACME CORP PAYMENT", 2, 12345)
RZelle == row(3, 15, "ZELLE BUSINESS PAYMENT", 1, 125000)
RShort == row(3, 2, "ab", 1, 500)
RBad   == row(2, 30, "ACH CORP DEBIT RENT", 1, 8000)
RHome  == row(3, 16, "HOMEPAGE OFFICE SUPPLY", 1, 1200)
RLeap  == row(2, 29, "WIRE REF# 7731", 1, 4000)
RRent  == row(4, 1, "MONTHLY RENT", 1, 90000)
REdi   == row(3, 15, "EDI PYMNTS VENDOR", 1, 99)
RDep   == row(3, 1, "COUNTER DEPOSIT", 1, 50000)
RMonth == row(13, 45, "INCOMING WIRE 88", 1, 100)

KStar  == chk(3, 2, TRUE, 1042, 25000)
KPlain == chk(3, 15, FALSE, 1043, 100000)
KBad   == chk(2, 30, FALSE, 1044, 1000)
KLate  == chk(3, 20, FALSE, 77, 1550)

\* First pages: the statement date, the account and the period anchors.
FirstPages ==
    << \* four-digit year, account, both period anchors
       <<lit("TRUIST"), lit("BUSINESS VALUE CHECKING 1340006375358"),
         lit("For 10/31/2025"),
         lit("Your previous balance as of 09/30/2025 $1,000.00"),
         lit("Your new balance as of 10/31/2025 = $2,000.00")>>,
       \* two-digit year, no account, no period
       <<lit("Truist Bank"), lit("For 10/31/25"), PAD>>,
       \* no statement date: a 20xx token (a leap year)
       <<lit("TRUIST statement 2024"), lit("CHECKING1340006375358"),
         lit("Your new balance as of 02/29/2024 = $2,000.00")>>,
       \* no year anywhere
       <<lit("Truist Bank, Member FDIC"), lit("BUSINESS VALUE CHECKING")>>,
       \* a period anchor followed by a date that does not exist
       <<lit("TRUIST"), lit("For 10/31/2025"),
         lit("Your previous balance as of 02/30/2025 $1,000.00"),
         lit("Your new balance as of 10/31/2025 = $2,000.00")>>,
       <<lit("TRUIST"), lit("For 10/31/2025"),
         lit("Your new balance as of 13/45/2025 = $2,000.00")>>,
       \* year 0000
       <<lit("TRUIST"), lit("For 10/31/0000"),
         lit("Your previous balance as of 02/30/2025 $1,000.00")>>,
       \* another bank
       <<lit("First National Bank"), lit("For 10/31/2025")>>,
       \* a first page that carries transactions
       <<lit("TRUIST For 10/31/2025"), CHK, CTH, KPlain, KLate, WH, TH, RRent, RZelle, TW>>,
       \* a two-digit year without a blank after "For", after another year
       <<lit("Truist statement 2019"), lit("For10/31/24")>>,
       \* a statement date that is no MM/DD/YY, and 2025 within a number
       <<lit("TRUIST For 1/5/25"), lit("CHECKING 1320256789")>>,
       \* "for" in lower case and no 20YY
       <<lit("truist for 10/31/25")>>,
       \* a statement date that is no MM/DD/YY, and two years after it
       <<lit("Truist For 1/5/25 period ending 2024, opened 2021")>> >>

\* The pages that follow the first page.
ContentPages ==
    << \* an explicit withdrawals section
       <<PAD, WH, TH, RAcme, RZelle, TW>>,
       \* withdrawals with a short description, dates that do not exist and
       \* a description that holds the words of a footer
       <<PAD, WH, TH, RShort, RBad, RHome, RMonth, RAcme, TW>>,
       \* an explicit deposits section
       <<PAD, DH, TH, REdi, RDep, TD>>,
       \* withdrawals, then deposits
       <<WH, TH, RZelle, RBad, RLeap, TW, DH, TH, REdi, RShort, RDep, TD>>,
       \* continuation pages: a table header and no section header
       <<CONT, TH, RZelle, RAcme, RLeap>>,
       <<CONT, TH, REdi, RDep, RAcme>>,
       <<CONT, TH, RAcme, RRent, RShort>>,
       <<CONT, TH, RZelle, REdi, RAcme>>,
       \* a continuation page on which the withdrawals end
       <<CONT, TH, RZelle, TW, DH, TH, REdi, TD>>,
       \* checks
       <<PAD, CHK, CTH, KStar, KPlain, KBad, CEND>>,
       <<CHK, CTH, KStar, KLate, WH, TH, RAcme, TW>>,
       \* boilerplate with section headers and rows
       <<BOIL, WH, TH, RAcme, RZelle, REdi, TW>>,
       \* short pages
       <<WH, TH>>,
       <<TH, RAcme>>,
       <<>>,
       \* rows and no header
       <<PAD, RAcme, RZelle, RRent>>,
       <<PAD, RAcme, RRent>>,
       \* boilerplate of other kinds after a deposits section
       <<PAD, DH, TH, REdi, RDep, RAcme, TD, RECO>>,
       <<BILL, CHK, CTH, KStar, KPlain, KLate, PAD>>,
       <<ELEC, WH, TH, RAcme, RZelle, RRent, TW>>,
       <<MAIL, PAD, RAcme, RZelle, RRent>>,
       \* a summary line of the deposits right before the withdrawals section
       <<PAD, DH, WH, TH, RZelle, RAcme, TW>>,
       \* a continuation page whose first keyword stands beyond the window
       <<CONT, TH, PAD, PAD, PAD, PAD, PAD, PAD, PAD, RZelle, RAcme>>,
       \* a continuation page on which the withdrawals end, without deposits
       <<CONT, TH, RZelle, RAcme, TW, PAD>>,
       \* withdrawals that end at a "continued" line
       <<PAD, WH, TH, RZelle, RAcme, MORE, RRent>>,
       \* a continuation page with a large total before the deposits section
       <<CONT, TH, RZelle, TWL, DH, TH, REdi, TD>>,
       \* a continuation page with a second table and no deposits header
       <<CONT, TH, RZelle, TW, TH, REdi, RDep>>,
       \* a continuation page that opens with the total line of the withdrawals
       <<CONT, TW, DH, TH, REdi, RDep, TD>> >>

Catalogue == FirstPages \o ContentPages

FirstPageIds == 1..Len(FirstPages)

ContentPageIds == (Len(FirstPages) + 1)..Len(Catalogue)

PageIds == 1..Len(Catalogue)

\* page.extract_text() of every page of the catalogue.
PageText == [p \in PageIds |-> RenderPage(Catalogue[p])]

\* date.today().year when the program runs.
TodayYears == {2026, 2028}

\* The documents: a first page and up to MaxContentPages further pages, or no
\* page at all.
MaxContentPages == 1

RECURSIVE SeqsUpTo(_, _)
SeqsUpTo(S, k) ==
    IF k = 0 THEN {<<>>}
    ELSE LET R == SeqsUpTo(S, k - 1)
         IN  R \cup {Append(q, x) : q \in R, x \in S}

Documents ==
    {<<>>} \cup {<<f>> \o q : f \in FirstPageIds, q \in SeqsUpTo(ContentPageIds, MaxContentPages)}

\* The values self._year can take on these documents.
Years ==
    {_extract_metadata(PageText[f], t)._year[1] : f \in FirstPageIds, t \in TodayYears}

\* The functions of the page classifier and of the table parsers on the pages
\* of the catalogue, evaluated once.
IsTransactionPage == [p \in PageIds |-> is_transaction_page(PageText[p])]

ChecksOf == [p \in PageIds, y \in Years |-> extract_checks_from_page(PageText[p], y)]

WithdrawalsOf == [p \in PageIds, y \in Years |-> extract_withdrawals_from_page(PageText[p], y)]

DepositsOf == [p \in PageIds, y \in Years |-> extract_deposits_from_page(PageText[p], y)]

\* The functions of the parser on the first pages of the catalogue.
CanParse == [d \in Documents |-> can_parse([i \in 1..Len(d) |-> PageText[d[i]]])]

ReadsToday == [p \in FirstPageIds |-> reads_today(PageText[p])]

MetadataOf == [p \in FirstPageIds, t \in TodayYears |-> _extract_metadata(PageText[p], t)]

PeriodOf ==
    [p \in FirstPageIds, y \in {None} \cup {Some(v) : v \in Years} |->
        _extract_statement_period(PageText[p], y)]

\* ------------------------------------------------------------------------
\* The state of one call of extract_statement(pdf_path)
\* ------------------------------------------------------------------------

VARIABLES
    document,               \* the PDF at pdf_path: the ids of its pages
    pc,                     \* where extract_statement / parse is
    self_pdf,               \* parser.pdf: "none" (None), "open" or "closed"
    self_year,              \* parser._year
    self_account_number,    \* parser._account_number
    start_date,             \* parse: start_date
    end_date,               \* parse: end_date
    page_classifications,   \* parse: page_classifications, page number -> bool
    page_num,               \* parse: the page number the loop is at (0-based)
    page,                   \* parse: the page of the last extraction
    checks,                 \* parse: checks of the last extraction
    withdrawals,            \* parse: withdrawals of the last extraction
    deposits,               \* parse: deposits of the last extraction
    all_transactions,       \* parse: all_transactions
    result                  \* what extract_statement returned or raised

vars == <<document, pc, self_pdf, self_year, self_account_number, start_date, end_date,
          page_classifications, page_num, page, checks, withdrawals, deposits,
          all_transactions, result>>

NoResult == [kind |-> "none", exc |-> NoExc, raised_in |-> "", statement |-> None]

Raised(exc, where) == [kind |-> "error", exc |-> exc, raised_in |-> where, statement |-> None]

Returned(statement) ==
    [kind |-> "statement", exc |-> NoExc, raised_in |-> "", statement |-> Some(statement)]

\* The call is extract_statement(pdf_path), or parse() on a parser that was
\* constructed and never entered (pc = "parse" with self.pdf = None).
Init ==
    /\ document \in Documents
    /\ pc \in {"detect_bank", "parse"}
    /\ self_pdf = "none"
    /\ self_year = None
    /\ self_account_number = None
    /\ start_date = None
    /\ end_date = None
    /\ page_classifications = <<>>
    /\ page_num = 0
    /\ page = None
    /\ checks = <<>>
    /\ withdrawals = <<>>
    /\ deposits = <<>>
    /\ all_transactions = <<>>
    /\ result = NoResult

\* extract_statement: detect_bank(pdf_path), and the ValueError when no
\* parser can parse the document.
DetectBank ==
    /\ pc = "detect_bank"
    /\ IF CanParse[document]
       THEN pc' = "enter" /\ UNCHANGED result
       ELSE pc' = "done" /\ result' = Raised("ValueError", "extract_statement")
    /\ UNCHANGED <<document, self_pdf, self_year, self_account_number, start_date,
                   end_date, page_classifications, page_num, page, checks, withdrawals,
                   deposits, all_transactions>>

\* with parser_class(pdf_path) as parser: BankParser.__enter__.
Enter ==
    /\ pc = "enter"
    /\ self_pdf' = "open"
    /\ pc' = "parse"
    /\ UNCHANGED <<document, self_year, self_account_number, start_date, end_date,
                   page_classifications, page_num, page, checks, withdrawals, deposits,
                   all_transactions, result>>

\* self._year and self._account_number become those of metadata.
SetMetadata(metadata) ==
    /\ self_year' = metadata._year
    /\ self_account_number' = metadata._account_number

\* parse: the check of self.pdf, then self._extract_metadata(), which reads
\* the clock only when the first page shows no year.  Within the with block
\* of extract_statement the handle is open; the RuntimeError leaves a parse()
\* that was called outside of one.
ExtractMetadata ==
    /\ pc = "parse"
    /\ IF self_pdf # "open"
       THEN /\ pc' = "done"
            /\ result' = Raised("RuntimeError", "parse")
            /\ UNCHANGED <<self_year, self_account_number>>
       ELSE /\ \E today \in TodayYears :
                /\ ReadsToday[document[1]] \/ today = MinOf(TodayYears)
                /\ SetMetadata(MetadataOf[document[1], today])
            /\ pc' = "period"
            /\ UNCHANGED result
    /\ UNCHANGED <<document, self_pdf, start_date, end_date, page_classifications,
                   page_num, page, checks, withdrawals, deposits, all_transactions>>

\* parse continues with the period, or the exception of the period leaves it.
SetStatementPeriod(period) ==
    IF period.exc # NoExc
    THEN /\ pc' = "exit"
         /\ result' = Raised(period.exc, "_extract_statement_period")
         /\ UNCHANGED <<start_date, end_date>>
    ELSE /\ start_date' = period.start_date
         /\ end_date' = period.end_date
         /\ pc' = "classify"
         /\ UNCHANGED result

\* parse: start_date, end_date = self._extract_statement_period().
ExtractStatementPeriod ==
    /\ pc = "period"
    /\ SetStatementPeriod(PeriodOf[document[1], self_year])
    /\ UNCHANGED <<document, self_pdf, self_year, self_account_number,
                   page_classifications, page_num, page, checks, withdrawals, deposits,
                   all_transactions>>

\* parse: page_classifications = classify_pages(self.pdf).
ClassifyPages ==
    /\ pc = "classify"
    /\ page_classifications' =
          [i \in 0..(Len(document) - 1) |-> IsTransactionPage[document[i + 1]]]
    /\ page_num' = 0
    /\ pc' = "loop"
    /\ UNCHANGED <<document, self_pdf, self_year, self_account_number, start_date,
                   end_date, page, checks, withdrawals, deposits, all_transactions,
                   result>>

\* One iteration of the loop over the pages, for a page that is skipped.
SkipPage ==
    /\ pc = "loop"
    /\ page_num < Len(document)
    /\ ~page_classifications[page_num]
    /\ page_num' = page_num + 1
    /\ UNCHANGED <<document, pc, self_pdf, self_year, self_account_number, start_date,
                   end_date, page_classifications, page, checks, withdrawals, deposits,
                   all_transactions, result>>

\* An accumulation that keeps one copy of a record.
extended_once(all, c, w, d) ==
    all \o SelectSeq(c \o w \o d, LAMBDA t : \A j \in 1..Len(all) : all[j] # t)

\* all_transactions after extend(checks), extend(withdrawals) and
\* extend(deposits).
extended(all, c, w, d) == all \o c \o w \o d

\* The three extractions of one iteration and the three extends: c, w and d
\* are what the extractions return or raise.  An exception that leaves an
\* extraction leaves parse, before the later extractions run.
ExtendWith(c, w, d) ==
    IF c.exc # NoExc
    THEN /\ pc' = "exit"
         /\ result' = Raised(c.exc, "extract_checks_from_page")
         /\ UNCHANGED <<checks, withdrawals, deposits, all_transactions, page_num>>
    ELSE IF w.exc # NoExc
    THEN /\ pc' = "exit"
         /\ result' = Raised(w.exc, "extract_withdrawals_from_page")
         /\ checks' = c.txns
         /\ UNCHANGED <<withdrawals, deposits, all_transactions, page_num>>
    ELSE IF d.exc # NoExc
    THEN /\ pc' = "exit"
         /\ result' = Raised(d.exc, "extract_deposits_from_page")
         /\ checks' = c.txns
         /\ withdrawals' = w.txns
         /\ UNCHANGED <<deposits, all_transactions, page_num>>
    ELSE /\ checks' = c.txns
         /\ withdrawals' = w.txns
         /\ deposits' = d.txns
         /\ all_transactions' = extended(all_transactions, c.txns, w.txns, d.txns)
         /\ page_num' = page_num + 1
         /\ UNCHANGED <<pc, result>>

\* One iteration of the loop over the pages, for a transaction page.
ExtractPage ==
    /\ pc = "loop"
    /\ page_num < Len(document)
    /\ page_classifications[page_num]
    /\ page' = Some(document[page_num + 1])
    /\ ExtendWith(ChecksOf[document[page_num + 1], self_year[1]],
                  WithdrawalsOf[document[page_num + 1], self_year[1]],
                  DepositsOf[document[page_num + 1], self_year[1]])
    /\ UNCHANGED <<document, self_pdf, self_year, self_account_number, start_date,
                   end_date, page_classifications>>

\* parse: all_transactions.sort(...) and return BankStatement(...).
SortAndReturn ==
    /\ pc = "loop"
    /\ page_num = Len(document)
    /\ all_transactions' = sort_transactions(all_transactions)
    /\ result' = Returned(BankStatement("Truist", self_account_number, start_date,
                                        end_date, all_transactions'))
    /\ pc' = "exit"
    /\ UNCHANGED <<document, self_pdf, self_year, self_account_number, start_date,
                   end_date, page_classifications, page_num, page, checks, withdrawals,
                   deposits>>

\* An __exit__ that closes the handle only after parse has returned.
ExitOnReturn ==
    /\ pc = "exit"
    /\ self_pdf' = IF self_pdf = "open" /\ result.kind = "statement" THEN "closed"
                   ELSE self_pdf
    /\ pc' = "done"
    /\ UNCHANGED <<document, self_year, self_account_number, start_date, end_date,
                   page_classifications, page_num, page, checks, withdrawals, deposits,
                   all_transactions, result>>

\* The end of the with block: BankParser.__exit__, on return and on raise.
Exit ==
    /\ pc = "exit"
    /\ self_pdf' = IF self_pdf = "open" THEN "closed" ELSE self_pdf
    /\ pc' = "done"
    /\ UNCHANGED <<document, self_year, self_account_number, start_date, end_date,
                   page_classifications, page_num, page, checks, withdrawals, deposits,
                   all_transactions, result>>

Next ==
    \/ DetectBank
    \/ Enter
    \/ ExtractMetadata
    \/ ExtractStatementPeriod
    \/ ClassifyPages
    \/ SkipPage
    \/ ExtractPage
    \/ SortAndReturn
    \/ Exit

Spec == Init /\ [][Next]_vars

\* ------------------------------------------------------------------------
\* What the pages hold, read off their lines: the offsets of the lines, the
\* dates that exist, and the transaction a line stands for.
\* ------------------------------------------------------------------------

\* The offset (0-based) at which line i of a page starts.
RECURSIVE LineStartIn(_, _)
LineStartIn(lines, i) ==
    IF i = 1 THEN 0
    ELSE LineStartIn(lines, i - 1) + Len(RenderLine(lines[i - 1])) + 1

LineStart == [p \in PageIds |-> [i \in 1..Len(Catalogue[p]) |-> LineStartIn(Catalogue[p], i)]]

\* The offset after the last character of line i.
LineStop(p, i) == LineStart[p][i] + Len(RenderLine(Catalogue[p][i]))

\* The length of the text of a page; no line starts or ends with a blank,
\* so this is the length of the trimmed text too.
PageLength(p) == IF Catalogue[p] = <<>> THEN 0 ELSE LineStop(p, Len(Catalogue[p]))

LinesOf(p) == 1..Len(Catalogue[p])

\* The spans of the three extractions on the pages of the catalogue.
ChecksSpanOf == [p \in PageIds |-> checks_span(PageText[p])]

WithdrawalsSpanOf == [p \in PageIds |-> withdrawals_span(PageText[p])]

DepositsSpanOf == [p \in PageIds |-> deposits_span(PageText[p])]

\* markers = _find_section_markers(text) on the pages of the catalogue.
MarkersOf == [p \in PageIds |-> _find_section_markers(PageText[p])]

\* Line i lies within the span.
Inside(p, i, span) ==
    span # <<>> /\ span[1] <= LineStart[p][i] /\ LineStop(p, i) <= span[2]

\* The number of days of month mm of year y.
CalendarDays(y, mm) ==
    CASE mm \in {1, 3, 5, 7, 8, 10, 12} -> 31
      [] mm \in {4, 6, 9, 11} -> 30
      [] mm = 2 -> IF (y % 4 = 0 /\ y % 100 # 0) \/ y % 400 = 0 THEN 29 ELSE 28
      [] OTHER -> 0

\* The MM/DD of line l is a date of year y.
CalendarDate(l, y) ==
    y \in 1..9999 /\ l.mm \in 1..12 /\ l.dd \in 1..CalendarDays(y, l.mm)

\* The transaction a check entry stands for.
ExpectedCheck(l, y) ==
    [date |-> <<y, l.mm, l.dd>>, description |-> "Check #" \o FmtNat(l.num),
     amount |-> [coef |-> l.cents, exp |-> 2], transaction_type |-> "check",
     check_number |-> <<l.num>>]

\* The transaction a row stands for in a span of the given category.
ExpectedRow(l, y, category) ==
    [date |-> <<y, l.mm, l.dd>>, description |-> l.desc,
     amount |-> [coef |-> l.cents, exp |-> 2], transaction_type |-> category,
     check_number |-> <<>>]

\* How many times transaction t occurs in txns.
Occurrences(txns, t) == Cardinality({j \in 1..Len(txns) : txns[j] = t})

\* The transactions of the returned statement.
Returned_transactions == result.statement[1].transactions

\* A date as a number that orders dates.
DateNumber(d) == d[1] * 10000 + d[2] * 100 + d[3]

\* ts is sorted non-decreasing by (date, rank of the category).
SortedBy(ts, rank) ==
    \A i \in 1..(Len(ts) - 1) :
        \/ DateNumber(ts[i].date) < DateNumber(ts[i + 1].date)
        \/ /\ ts[i].date = ts[i + 1].date
           /\ rank[ts[i].transaction_type] <= rank[ts[i + 1].transaction_type]

\* The order in which TransactionType declares its members.
DeclaredRank == ("check" :> 1) @@ ("withdrawal" :> 2) @@ ("deposit" :> 3)

\* The alphabetical order of the members' string values.
ValueRank == ("check" :> 1) @@ ("deposit" :> 2) @@ ("withdrawal" :> 3)

\* C1 as the claim states it: the transactions of every returned statement
\* are sorted non-decreasing by (date, category), categories compared in the
\* declared order CHECK < WITHDRAWAL < DEPOSIT.
C1_SortedInDeclaredOrder ==
    result.kind = "statement" => SortedBy(Returned_transactions, DeclaredRank)

\* C1, amended: the transactions of every returned statement are sorted
\* non-decreasing by (date, category), categories compared by their string
\* values "check" < "deposit" < "withdrawal": of two adjacent transactions
\* with the same date the earlier one's value does not come after the later
\* one's.
C1_SortedInValueOrder ==
    result.kind = "statement" => SortedBy(Returned_transactions, ValueRank)

\* A returned statement in which a deposit is followed by a withdrawal of the
\* same date.
C1_Witness ==
    /\ result.kind = "statement"
    /\ \E i \in 1..(Len(Returned_transactions) - 1) :
          /\ Returned_transactions[i].date = Returned_transactions[i + 1].date
          /\ Returned_transactions[i].transaction_type = "deposit"
          /\ Returned_transactions[i + 1].transaction_type = "withdrawal"

\* C2: every transaction of a returned statement has an amount >= 0 and a
\* category that is one of CHECK, WITHDRAWAL and DEPOSIT.
C2_AmountsAndCategories ==
    result.kind = "statement" =>
        \A i \in 1..Len(Returned_transactions) :
            /\ Returned_transactions[i].amount.coef >= 0
            /\ Returned_transactions[i].transaction_type \in {"check", "withdrawal", "deposit"}

\* A returned statement with a check, a withdrawal and a deposit.
C2_Witness ==
    /\ result.kind = "statement"
    /\ \A c \in {"check", "withdrawal", "deposit"} :
          \E i \in 1..Len(Returned_transactions) :
              Returned_transactions[i].transaction_type = c

\* The lines that are boilerplate markers.
BoilerplateLines == {BOIL, RECO, BILL, ELEC, MAIL}

HasBoilerplate(p) == \E i \in LinesOf(p) : Catalogue[p][i] \in BoilerplateLines

\* The page carries a category header or a table header.
HasTransactionMarker(p) == \E i \in LinesOf(p) : Catalogue[p][i] \in {WH, DH, CHK, TH, CTH}

\* The number of rows and check entries of a page.
DatedLines(p) == Cardinality({i \in LinesOf(p) : Catalogue[p][i].k \in {"row", "chk"}})

\* C3: a page whose text contains a boilerplate marker is classified as no
\* transaction page, whatever else is on the page.
C3_BoilerplateIsNoTransactionPage ==
    \A i \in DOMAIN page_classifications :
        HasBoilerplate(document[i + 1]) => ~page_classifications[i]

\* A classified page with a boilerplate marker, a category or table header
\* and three or more date/amount lines.
C3_Witness ==
    \E i \in DOMAIN page_classifications :
        /\ HasBoilerplate(document[i + 1])
        /\ HasTransactionMarker(document[i + 1])
        /\ DatedLines(document[i + 1]) >= 3
        /\ PageLength(document[i + 1]) >= 100
        /\ ~page_classifications[i]

\* C4: a page whose trimmed text is shorter than 100 characters is
\* classified as no transaction page, whatever it contains.
C4_ShortIsNoTransactionPage ==
    \A i \in DOMAIN page_classifications :
        PageLength(document[i + 1]) < 100 => ~page_classifications[i]

\* A classified page of fewer than 100 characters with a category header and
\* a table header, and no boilerplate marker.
C4_Witness ==
    \E i \in DOMAIN page_classifications :
        /\ PageLength(document[i + 1]) < 100
        /\ PageLength(document[i + 1]) > 0
        /\ HasTransactionMarker(document[i + 1])
        /\ ~HasBoilerplate(document[i + 1])
        /\ ~page_classifications[i]

\* "(continued)" ends within the first 200 characters of the page.
ContinuationPage(p) == \E i \in LinesOf(p) : Catalogue[p][i] = CONT /\ LineStop(p, i) <= 200

\* The first table header line of a page, 0 when there is none.
FirstTableHeader(p) ==
    IF \E i \in LinesOf(p) : Catalogue[p][i] = TH
    THEN CHOOSE i \in LinesOf(p) : Catalogue[p][i] = TH /\ \A j \in 1..(i - 1) : Catalogue[p][j] # TH
    ELSE 0

\* A continuation page with a table header, no category header and no total
\* line, on which the table header is followed by rows only, all of them
\* within the 500 characters after it.
KeywordPage(p) ==
    /\ ContinuationPage(p)
    /\ FirstTableHeader(p) # 0
    /\ \A i \in LinesOf(p) : Catalogue[p][i] \notin {WH, DH, TW, TD, CHK}
    /\ \A i \in (FirstTableHeader(p) + 1)..Len(Catalogue[p]) :
          /\ Catalogue[p][i].k = "row"
          /\ LineStop(p, i) <= LineStop(p, FirstTableHeader(p)) + 500

\* The rows whose description holds a withdrawal keyword (DEBIT, WIRE REF#,
\* ZELLE) and those whose description holds a deposit keyword (EDI PYMNTS,
\* DEPOSIT, INCOMING WIRE); no row holds both.
WithdrawalRows == {RZelle, RBad, RLeap}

DepositRows == {REdi, RDep, RMonth}

HasWithdrawalRow(p) == \E i \in LinesOf(p) : Catalogue[p][i] \in WithdrawalRows

HasDepositRow(p) == \E i \in LinesOf(p) : Catalogue[p][i] \in DepositRows

\* C5: on a continuation page with a table header, no category header and
\* no total line, withdrawal keywords alone give a withdrawals span and no
\* deposits span, deposit keywords alone give a deposits span and no
\* withdrawals span, and no keyword gives no span.
C5_ContinuationByKeywords ==
    (page # None /\ KeywordPage(page[1])) =>
        /\ (HasWithdrawalRow(page[1]) /\ ~HasDepositRow(page[1])) =>
              (WithdrawalsSpanOf[page[1]] # <<>> /\ DepositsSpanOf[page[1]] = <<>>
               /\ deposits = <<>>)
        /\ (HasDepositRow(page[1]) /\ ~HasWithdrawalRow(page[1])) =>
              (DepositsSpanOf[page[1]] # <<>> /\ WithdrawalsSpanOf[page[1]] = <<>>
               /\ withdrawals = <<>>)
        /\ (~HasDepositRow(page[1]) /\ ~HasWithdrawalRow(page[1])) =>
              (DepositsSpanOf[page[1]] = <<>> /\ WithdrawalsSpanOf[page[1]] = <<>>
               /\ withdrawals = <<>> /\ deposits = <<>>)

\* The extraction of a continuation page with withdrawal keywords only: its
\* rows came out as withdrawals.
C5_Witness ==
    /\ page # None
    /\ KeywordPage(page[1])
    /\ HasWithdrawalRow(page[1]) /\ ~HasDepositRow(page[1])
    /\ WithdrawalsSpanOf[page[1]] # <<>>
    /\ withdrawals # <<>>
    /\ deposits = <<>>

\* The page and the year of the last extraction.
LastPage == page[1]

LastYear == self_year[1]

\* The last iteration ran its three extractions to the end.
Extracted == page # None /\ result.kind # "error"

\* Line i of the last page is a check entry within the checks span.
CheckEntry(i) ==
    Catalogue[LastPage][i].k = "chk" /\ Inside(LastPage, i, ChecksSpanOf[LastPage])

\* Line i of the last page is a row within the withdrawals span, or within
\* the deposits span.
WithdrawalRow(i) ==
    Catalogue[LastPage][i].k = "row" /\ Inside(LastPage, i, WithdrawalsSpanOf[LastPage])

DepositRow(i) ==
    Catalogue[LastPage][i].k = "row" /\ Inside(LastPage, i, DepositsSpanOf[LastPage])

\* C6: each check entry "MM/DD [*]number amount" of the checks span whose
\* MM/DD is a date of the statement year yields exactly one transaction, of
\* category CHECK, with the number of the line as check_number, the
\* description "Check #<number>" and the amount and date of the line; every
\* check carries a check_number and no withdrawal or deposit carries one.
C6_ChecksCarryTheirNumber ==
    Extracted =>
        /\ \A i \in LinesOf(LastPage) :
              (CheckEntry(i) /\ CalendarDate(Catalogue[LastPage][i], LastYear)) =>
                  Occurrences(checks, ExpectedCheck(Catalogue[LastPage][i], LastYear)) = 1
        /\ \A j \in 1..Len(checks) :
              checks[j].transaction_type = "check" /\ checks[j].check_number # None
        /\ \A j \in 1..Len(withdrawals) : withdrawals[j].check_number = None
        /\ \A j \in 1..Len(deposits) : deposits[j].check_number = None

\* The extraction of a page with a marked check entry "03/02 *1042 250.00"
\* and withdrawals: check 1042 came out, and so did a withdrawal.
C6_Witness ==
    /\ Extracted
    /\ \E i \in LinesOf(LastPage) :
          /\ CheckEntry(i)
          /\ Catalogue[LastPage][i].star
          /\ Occurrences(checks, ExpectedCheck(Catalogue[LastPage][i], LastYear)) = 1
    /\ withdrawals # <<>>

\* A row "MM/DD description amount" with a description of three characters
\* or more and a date of year y.
WellFormedRow(l, y) == l.k = "row" /\ Len(l.desc) >= 3 /\ CalendarDate(l, y)

\* C7 as the claim states it: every well-formed row of the withdrawals span
\* yields exactly one withdrawal with the date, description and amount of
\* the row, and every well-formed row of the deposits span exactly one such
\* deposit.  (The rows of the catalogue are transaction rows: none is a
\* header, a "continued" line or a "Page X of Y" footer.)
C7_EveryRowYieldsOne ==
    Extracted =>
        \A i \in LinesOf(LastPage) :
            WellFormedRow(Catalogue[LastPage][i], LastYear) =>
                /\ WithdrawalRow(i) =>
                      Occurrences(withdrawals,
                                  ExpectedRow(Catalogue[LastPage][i], LastYear, "withdrawal")) = 1
                /\ DepositRow(i) =>
                      Occurrences(deposits,
                                  ExpectedRow(Catalogue[LastPage][i], LastYear, "deposit")) = 1

\* The words of the header/footer filter occur in the description of row l.
HoldsFilterWords(l) ==
    \/ Contains(upper(l.desc), "PAGE") /\ Contains(upper(l.desc), "OF")
    \/ Contains(upper(l.desc), "CONTINUED")
    \/ Contains(upper(l.desc), "DATE") /\ Contains(upper(l.desc), "CHECK")
    \/ Contains(upper(l.desc), "DESCRIPTION") /\ Contains(upper(l.desc), "AMOUNT")

\* A well-formed row without the words of the header/footer filter.
PlainRow(l, y) == WellFormedRow(l, y) /\ ~HoldsFilterWords(l)

\* Every plain row of the two spans of the last page came out exactly once.
PlainRowsEmitted ==
    \A i \in LinesOf(LastPage) :
        PlainRow(Catalogue[LastPage][i], LastYear) =>
            /\ WithdrawalRow(i) =>
                  Occurrences(withdrawals,
                              ExpectedRow(Catalogue[LastPage][i], LastYear, "withdrawal")) = 1
            /\ DepositRow(i) =>
                  Occurrences(deposits,
                              ExpectedRow(Catalogue[LastPage][i], LastYear, "deposit")) = 1

\* Row i of the last page has a description of fewer than three characters.
ShortRow(i) == Catalogue[LastPage][i].k = "row" /\ Len(Catalogue[LastPage][i].desc) < 3

\* C8: no withdrawal or deposit has a description shorter than three
\* characters; a row with such a description, as "03/02 ab 5.00", yields
\* nothing, raises nothing, and the other rows of its span are still parsed.
C8_ShortDescriptionsDropped ==
    page # None =>
        /\ \A j \in 1..Len(withdrawals) : Len(withdrawals[j].description) >= 3
        /\ \A j \in 1..Len(deposits) : Len(deposits[j].description) >= 3
        /\ (\E i \in LinesOf(LastPage) : ShortRow(i) /\ (WithdrawalRow(i) \/ DepositRow(i))) =>
              (result.kind # "error" /\ PlainRowsEmitted)

\* The extraction of a page whose withdrawals span holds "03/02 ab 5.00" and,
\* after it, a plain row: the plain row came out, the short one did not.
C8_Witness ==
    /\ Extracted
    /\ \E i \in LinesOf(LastPage) :
          /\ ShortRow(i) /\ WithdrawalRow(i)
          /\ \E k \in (i + 1)..Len(Catalogue[LastPage]) :
                /\ PlainRow(Catalogue[LastPage][k], LastYear) /\ WithdrawalRow(k)
                /\ Occurrences(withdrawals,
                               ExpectedRow(Catalogue[LastPage][k], LastYear, "withdrawal")) = 1
    /\ \A j \in 1..Len(withdrawals) : withdrawals[j].description # "ab"

\* The three extractions.
Extractions ==
    {"extract_checks_from_page", "extract_withdrawals_from_page", "extract_deposits_from_page"}

\* Line i of the last page is a check entry or a row of a span whose MM/DD
\* is no date of the statement year.
FailingCheck(i) == CheckEntry(i) /\ ~CalendarDate(Catalogue[LastPage][i], LastYear)

FailingRow(i) ==
    /\ WithdrawalRow(i) \/ DepositRow(i)
    /\ Len(Catalogue[LastPage][i].desc) >= 3
    /\ ~CalendarDate(Catalogue[LastPage][i], LastYear)

\* C9: a line whose date conversion fails is skipped and nothing else is: no
\* exception leaves one of the three extractions, the failing line yields
\* no transaction, and every other well-formed line of the span comes out.
C9_FailingLineSkipped ==
    page # None =>
        /\ result.raised_in \notin Extractions
        /\ \A i \in LinesOf(LastPage) :
              /\ FailingCheck(i) =>
                    \A j \in 1..Len(checks) :
                        checks[j].check_number # <<Catalogue[LastPage][i].num>>
              /\ FailingRow(i) =>
                    /\ \A j \in 1..Len(withdrawals) :
                          withdrawals[j].description # Catalogue[LastPage][i].desc
                    /\ \A j \in 1..Len(deposits) :
                          deposits[j].description # Catalogue[LastPage][i].desc
        /\ (\E i \in LinesOf(LastPage) : FailingCheck(i) \/ FailingRow(i)) =>
              /\ PlainRowsEmitted
              /\ \A i \in LinesOf(LastPage) :
                    (CheckEntry(i) /\ CalendarDate(Catalogue[LastPage][i], LastYear)) =>
                        Occurrences(checks,
                                    ExpectedCheck(Catalogue[LastPage][i], LastYear)) = 1

\* The extraction of a page with "02/30" in its withdrawals span and a plain
\* row after it, which came out.
C9_Witness ==
    /\ Extracted
    /\ \E i \in LinesOf(LastPage) :
          /\ FailingRow(i) /\ WithdrawalRow(i)
          /\ \E k \in (i + 1)..Len(Catalogue[LastPage]) :
                /\ PlainRow(Catalogue[LastPage][k], LastYear) /\ WithdrawalRow(k)
                /\ Occurrences(withdrawals,
                               ExpectedRow(Catalogue[LastPage][k], LastYear, "withdrawal")) = 1

\* C10 as the claim states it: whatever the first page holds, parse on the
\* opened document of a recognised Truist statement ends with a returned
\* statement.
C10_MetadataNeverAborts ==
    (pc = "done" /\ CanParse[document] /\ self_pdf # "none") => result.kind = "statement"

\* ------------------------------------------------------------------------
\* The year of a first page, read off its characters.
\* ------------------------------------------------------------------------

\* The character at (1-based) position i of text is a decimal digit.
IsDigit(text, i) == Ch(text, i) \in Digits

\* The number written by the n digits that start at position j.
RECURSIVE NumberAt(_, _, _)
NumberAt(text, j, n) ==
    IF n = 0 THEN 0 ELSE 10 * NumberAt(text, j, n - 1) + DigitVal[Ch(text, j + n - 1)]

\* "MM/DD/YY" starts at position j.
DateAt(text, j) ==
    /\ IsDigit(text, j) /\ IsDigit(text, j + 1) /\ Ch(text, j + 2) = "/"
    /\ IsDigit(text, j + 3) /\ IsDigit(text, j + 4) /\ Ch(text, j + 5) = "/"
    /\ IsDigit(text, j + 6) /\ IsDigit(text, j + 7)

\* The statement-date anchor "For" starts at position i and is followed,
\* after blanks or none, by a date that starts at position j.
AnchorAt(text, i, j) ==
    /\ Ch(text, i) = "F" /\ Ch(text, i + 1) = "o" /\ Ch(text, i + 2) = "r"
    /\ j >= i + 3
    /\ \A k \in (i + 3)..(j - 1) : Ch(text, k) \in Space
    /\ DateAt(text, j)

\* The positions of the dates that follow an anchor, and the first of them.
AnchoredDates(text) ==
    {j \in 1..Len(text) : \E i \in 1..Len(text) : AnchorAt(text, i, j)}

FirstAnchoredDate(text) == MinOf(AnchoredDates(text))

\* The year of the date at j is printed with four digits.
FourDigitYearAt(text, j) == IsDigit(text, j + 8) /\ IsDigit(text, j + 9)

\* The positions at which "20" and two more digits start.
YearTokens(text) ==
    {k \in 1..Len(text) :
        Ch(text, k) = "2" /\ Ch(text, k + 1) = "0" /\ IsDigit(text, k + 2)
        /\ IsDigit(text, k + 3)}

\* The year a first page resolves to: <<year>>, or <<>> when it is the
\* current calendar year.
ExpectedYear(text) ==
    IF AnchoredDates(text) # {}
    THEN (IF FourDigitYearAt(text, FirstAnchoredDate(text))
          THEN <<NumberAt(text, FirstAnchoredDate(text) + 6, 4)>>
          ELSE <<2000 + NumberAt(text, FirstAnchoredDate(text) + 6, 2)>>)
    ELSE IF YearTokens(text) # {}
    THEN <<NumberAt(text, MinOf(YearTokens(text)), 4)>>
    ELSE <<>>

ExpectedYearOf == [p \in FirstPageIds |-> ExpectedYear(PageText[p])]

\* The first page shows a statement date with a two-digit year.
TwoDigitAnchor == [p \in FirstPageIds |->
    AnchoredDates(PageText[p]) # {}
    /\ ~FourDigitYearAt(PageText[p], FirstAnchoredDate(PageText[p]))]

\* parse has run self._extract_metadata().
MetadataRead == pc \in {"period", "classify", "loop"} \/ self_year # None

NoTransactionPage == \A i \in 1..Len(document) : ~IsTransactionPage[document[i]]

\* C12 as the claim states it: when no page of the document is a
\* transaction page, or when no parser recognises the document,
\* extract_statement ends by raising and returns no statement.
C12_NothingToExtractFails ==
    (pc = "done" /\ (NoTransactionPage \/ ~CanParse[document])) => result.kind = "error"

\* The lines of page p that are one of the lines in S, and the first of them.
LinesIn(p, S) == {i \in LinesOf(p) : Catalogue[p][i] \in S}

FirstLineIn(p, S) == MinOf(LinesIn(p, S))

\* The "Total other withdrawals" lines.
TotalWithdrawLines == {TW, TWL}

\* The offset of the first "Total other withdrawals" line of page p.
TotalWithdrawOffset(p) == LineStart[p][FirstLineIn(p, TotalWithdrawLines)]

\* C13 as the claim states it: on a page with a "Total other withdrawals"
\* line, a deposits span starts after that line, also when the page has a
\* deposits header with its table header.
C13_DepositsStartAfterTotal ==
    (page # None /\ LinesIn(LastPage, TotalWithdrawLines) # {}
     /\ DepositsSpanOf[LastPage] # <<>>) =>
        DepositsSpanOf[LastPage][1] > TotalWithdrawOffset(LastPage)

\* The offset at which "DATE DESCRIPTION AMOUNT" of the first table header
\* of page p ends, and the end of the 500-character window after it.
WindowStart(p) == LineStart[p][FirstTableHeader(p)] + Len("DATE DESCRIPTION AMOUNT")

WindowEnd(p) == WindowStart(p) + 500

\* Line i of page p lies within the window, or beyond it.
InWindow(p, i) == i > FirstTableHeader(p) /\ LineStop(p, i) <= WindowEnd(p)

BeyondWindow(p, i) == LineStart[p][i] >= WindowEnd(p)

\* A continuation page with a table header, no category header and no
\* "Total other withdrawals" line, each of whose rows with a withdrawal
\* keyword lies within the window or beyond it.
VotingPage(p) ==
    /\ ContinuationPage(p)
    /\ FirstTableHeader(p) # 0
    /\ LinesIn(p, {WH, DH, TW, TWL}) = {}
    /\ \A i \in LinesIn(p, WithdrawalRows) : InWindow(p, i) \/ BeyondWindow(p, i)

\* A row with a withdrawal keyword, or with a deposit keyword, in the window.
WithdrawalKeywordInWindow(p) == \E i \in LinesIn(p, WithdrawalRows) : InWindow(p, i)

DepositKeywordInWindow(p) == \E i \in LinesIn(p, DepositRows) : InWindow(p, i)

\* C14: on a continuation page with a table header, no withdrawals table
\* marker, no "Total other withdrawals" marker and no deposits header
\* markers, the withdrawals span starts (at the end of the table header) if
\* and only if a withdrawal keyword stands in the 500 characters after the
\* table header: deposit keywords alone give no withdrawals span, both
\* keyword sets together still give one.
C14_WithdrawalKeywordStarts ==
    (page # None /\ VotingPage(LastPage)) =>
        /\ WithdrawalsSpanOf[LastPage] # <<>> <=> WithdrawalKeywordInWindow(LastPage)
        /\ WithdrawalsSpanOf[LastPage] # <<>> =>
              WithdrawalsSpanOf[LastPage][1] = WindowStart(LastPage)
        /\ WithdrawalsSpanOf[LastPage] = <<>> => withdrawals = <<>>

\* The extraction of a continuation page with both keyword sets in the
\* window: its rows came out as withdrawals.
C14_Witness ==
    /\ Extracted
    /\ VotingPage(LastPage)
    /\ WithdrawalKeywordInWindow(LastPage) /\ DepositKeywordInWindow(LastPage)
    /\ WithdrawalsSpanOf[LastPage] # <<>>
    /\ withdrawals # <<>>

\* C15: when extract_statement has ended, the handle that the with block
\* opened is closed, after a return of parse and after an exception that left
\* parse; parse on a parser whose handle was never opened returns no
\* statement and raises RuntimeError.
C15_HandleClosedOnEveryPath ==
    /\ pc = "done" => self_pdf # "open"
    /\ (pc = "done" /\ result.kind = "statement") => self_pdf = "closed"
    /\ (pc = "done" /\ result.kind = "error" /\ result.raised_in # "extract_statement"
        /\ result.raised_in # "parse") => self_pdf = "closed"
    /\ self_pdf = "none" => result.kind # "statement"
    /\ (pc = "done" /\ result.raised_in = "parse") =>
          (self_pdf = "none" /\ result.exc = "RuntimeError" /\ all_transactions = <<>>)

\* extract_statement ended by the ValueError that left parse, with the
\* handle closed.
C15_Witness ==
    /\ pc = "done"
    /\ result.kind = "error"
    /\ result.raised_in = "_extract_statement_period"
    /\ self_pdf = "closed"

\* parse on a parser that was never entered has raised.
C15_UnopenedRaises ==
    pc = "done" /\ self_pdf = "none" /\ result.exc = "RuntimeError" /\ CanParse[document]

\* A continuation page without a withdrawals table marker, with a "Total
\* other withdrawals" line and with a table header.
EndingPage(p) ==
    /\ ContinuationPage(p)
    /\ "withdraw_table" \notin DOMAIN MarkersOf[p]
    /\ LinesIn(p, TotalWithdrawLines) # {}
    /\ FirstTableHeader(p) # 0

\* C16: on a continuation page without a withdrawals table marker, with a
\* "Total other withdrawals" marker and with a table header, the withdrawals
\* span starts at the end of the first table header of the page and ends at
\* the offset of the "Total other withdrawals" line, with and without a
\* deposits header on the page.
C16_ContinuedWithdrawalsEndAtTotal ==
    (page # None /\ EndingPage(LastPage)) =>
        WithdrawalsSpanOf[LastPage] = <<WindowStart(LastPage), TotalWithdrawOffset(LastPage)>>

\* The extraction of such a page with a deposits header after the total
\* line: the rows before the total line came out as withdrawals.
C16_Witness ==
    /\ Extracted
    /\ EndingPage(LastPage)
    /\ LinesIn(LastPage, {DH}) # {}
    /\ "deposit_header" \in DOMAIN MarkersOf[LastPage]
    /\ WindowStart(LastPage) < TotalWithdrawOffset(LastPage)
    /\ withdrawals # <<>>

\* The withdrawals span of page p has a start and no end yet: the start is
\* the withdrawals table marker or the table header of a continuation page
\* with a withdrawal keyword.
OpenEnded(p) ==
    \/ "withdraw_table" \in DOMAIN MarkersOf[p]
    \/ VotingPage(p) /\ WithdrawalKeywordInWindow(p)

\* The "continued" lines of page p that start after offset start.
ContinuedAfter(p, start) == {i \in LinesIn(p, {MORE}) : LineStart[p][i] >= start}

\* The end the precedence gives for a span of page p that starts at start:
\* the deposits header, else the total line, else the word "continued" at
\* the end of the first such line after the start, else the end of the text.
ExpectedEnd(p, start) ==
    IF "deposit_header" \in DOMAIN MarkersOf[p] THEN LineStart[p][FirstLineIn(p, {DH})]
    ELSE IF "total_withdraw" \in DOMAIN MarkersOf[p] THEN TotalWithdrawOffset(p)
    ELSE IF ContinuedAfter(p, start) # {}
    THEN LineStop(p, MinOf(ContinuedAfter(p, start))) - Len("continued")
    ELSE PageLength(p)

\* C17: when the withdrawals span has a start and its end is not fixed with
\* it, the end is the deposits-header marker if there is one, else the "Total
\* other withdrawals" marker if there is one, else the first continuation
\* marker after the start, else the end of the page text.
C17_EndPrecedence ==
    (page # None /\ OpenEnded(LastPage)) =>
        /\ WithdrawalsSpanOf[LastPage] # <<>>
        /\ WithdrawalsSpanOf[LastPage][2] =
              ExpectedEnd(LastPage, WithdrawalsSpanOf[LastPage][1])

\* The extraction of a page with a withdrawals section, its total line and
\* a deposits header after it: the span ended at the deposits header.
C17_Witness ==
    /\ Extracted
    /\ OpenEnded(LastPage)
    /\ "deposit_header" \in DOMAIN MarkersOf[LastPage]
    /\ "total_withdraw" \in DOMAIN MarkersOf[LastPage]
    /\ TotalWithdrawOffset(LastPage) < MarkersOf[LastPage]["deposit_header"]
    /\ WithdrawalsSpanOf[LastPage][2] = MarkersOf[LastPage]["deposit_header"]
    /\ withdrawals # <<>>

\* The extraction of a page whose withdrawals ended at a "continued" line.
C17_EndsAtContinued ==
    /\ Extracted
    /\ OpenEnded(LastPage)
    /\ ContinuedAfter(LastPage, WithdrawalsSpanOf[LastPage][1]) # {}
    /\ WithdrawalsSpanOf[LastPage][2] < PageLength(LastPage)
    /\ DOMAIN MarkersOf[LastPage] = {"withdraw_header", "withdraw_table"}

\* Header line i of page p stands within the 100 characters before table
\* header line k.
HeaderBefore(p, i, k) ==
    /\ Catalogue[p][k] = TH
    /\ i < k
    /\ LineStart[p][k] - 100 <= LineStart[p][i]

\* The table header lines of page p that have a line of H within the 100
\* characters before them.  A line of H opens with the category phrase, so
\* no "total" stands before the phrase.
HeadedTables(p, H) ==
    {k \in LinesIn(p, {TH}) : \E i \in LinesIn(p, H) : HeaderBefore(p, i, k)}

\* The markers header and table of page p are absent, or they are the offset
\* of a line of H and the end of "DATE DESCRIPTION AMOUNT" of the first
\* table header that has such a line within the 100 characters before it.
FromHeaderLine(p, header, table, H) ==
    IF header \in DOMAIN MarkersOf[p] \/ table \in DOMAIN MarkersOf[p]
    THEN /\ header \in DOMAIN MarkersOf[p] /\ table \in DOMAIN MarkersOf[p]
         /\ HeadedTables(p, H) # {}
         /\ MarkersOf[p][table] =
               LineStart[p][MinOf(HeadedTables(p, H))] + Len("DATE DESCRIPTION AMOUNT")
         /\ \E i \in LinesIn(p, H) :
               /\ HeaderBefore(p, i, MinOf(HeadedTables(p, H)))
               /\ MarkersOf[p][header] = LineStart[p][i]
    ELSE TRUE

\* C18 as the claim states it: a withdrawals or deposits header marker is
\* recorded for a table header only when the category phrase stands within
\* the 100 characters before it and "total" does not stand right before the
\* phrase, so never from a line "Total other withdrawals, debits ..."; and
\* the marker recorded is that of the first such table header of the page.
C18_MarkersOnlyFromHeaders ==
    page # None =>
        /\ FromHeaderLine(LastPage, "withdraw_header", "withdraw_table", {WH})
        /\ FromHeaderLine(LastPage, "deposit_header", "deposit_table", {DH})

\* The records of page p in year y: its checks, then its withdrawals, then
\* its deposits when it is a transaction page, none otherwise.
RecordsOf(p, y) ==
    IF IsTransactionPage[p]
    THEN ChecksOf[p, y].txns \o WithdrawalsOf[p, y].txns \o DepositsOf[p, y].txns
    ELSE <<>>

\* The records of the first n pages of the document, in document order.
RECURSIVE RecordsUpTo(_)
RecordsUpTo(n) ==
    IF n = 0 THEN <<>> ELSE RecordsUpTo(n - 1) \o RecordsOf(document[n], LastYear)

\* ts and us hold the same records the same number of times.
SameRecords(ts, us) ==
    /\ Len(ts) = Len(us)
    /\ \A j \in 1..Len(us) : Occurrences(ts, us[j]) = Occurrences(us, us[j])

\* C19: while the pages are visited, all_transactions is the records of the
\* pages visited so far, in document order and per page checks, withdrawals,
\* deposits, with nothing from the pages that are no transaction pages; the
\* returned statement holds exactly these records, each as often as it was
\* extracted, so their number is the sum of the numbers per page and
\* category.
C19_AllRecordsKept ==
    /\ pc = "loop" => all_transactions = RecordsUpTo(page_num)
    /\ result.kind = "statement" =>
          SameRecords(Returned_transactions, RecordsUpTo(Len(document)))

\* A returned statement of two transaction pages that both print the same
\* withdrawal: it is in the statement twice.
C19_Witness ==
    /\ result.kind = "statement"
    /\ Len(document) = 2
    /\ \A i \in 1..2 : IsTransactionPage[document[i]]
    /\ \E t \in {RZelle} :
          /\ Occurrences(WithdrawalsOf[document[1], LastYear].txns,
                         ExpectedRow(t, LastYear, "withdrawal")) = 1
          /\ Occurrences(WithdrawalsOf[document[2], LastYear].txns,
                         ExpectedRow(t, LastYear, "withdrawal")) = 1
          /\ Occurrences(Returned_transactions, ExpectedRow(t, LastYear, "withdrawal")) = 2

\* The span is absent, or a range [start, end) within the text of page p.
WellFormedSpan(p, span) ==
    span # <<>> => (0 <= span[1] /\ span[1] <= span[2] /\ span[2] <= PageLength(p))

\* C20 as the claim states it: whenever the withdrawals or the deposits of a
\* page get a start, the span is a range with 0 <= start <= end <= len(text):
\* the end marker chosen never lies before the start.
C20_SpansWellFormed ==
    page # None =>
        /\ WellFormedSpan(LastPage, WithdrawalsSpanOf[LastPage])
        /\ WellFormedSpan(LastPage, DepositsSpanOf[LastPage])

\* Two spans share a character.
Overlap(a, b) ==
    a # <<>> /\ b # <<>> /\ Max2(a[1], b[1]) < Min2(a[2], b[2])

\* Row i of the last page came out as a withdrawal and as a deposit.
EmittedTwice(i) ==
    /\ Catalogue[LastPage][i].k = "row"
    /\ Occurrences(withdrawals,
                   ExpectedRow(Catalogue[LastPage][i], LastYear, "withdrawal")) > 0
    /\ Occurrences(deposits, ExpectedRow(Catalogue[LastPage][i], LastYear, "deposit")) > 0

\* C21 as the claim states it: on every page the withdrawals span and the
\* deposits span do not overlap, and no line of the page comes out both as a
\* withdrawal and as a deposit, also on a continuation page whose window
\* after the table header holds keywords of both kinds.
C21_SpansDisjoint ==
    page # None =>
        /\ ~Overlap(WithdrawalsSpanOf[LastPage], DepositsSpanOf[LastPage])
        /\ Extracted => \A i \in LinesOf(LastPage) : ~EmittedTwice(i)

====
